---------------------------- MODULE Spec2Model ----------------------------
(***************************************************************************)
(* A model of the Shippopotamus prompt tools: the prompt registry          *)
(* (tools/prompt_registry.py), the prompt composer                         *)
(* (tools/prompt_composer.py), the embeddings manager                      *)
(* (tools/embeddings_manager.py), the progress queue                       *)
(* (tools/progress_queue.py), the deduplication guard                      *)
(* (tools/tool_dedup_guard.py), the memory pruner (tools/prune_memory.py)  *)
(* and the prompt loader (tools/prompt_loader.py).                         *)
(*                                                                         *)
(* Python strings are TLA+ strings; a character is a string of length 1.   *)
(* An Optional[T] value is a sequence: << >> is None and <<v>> is v.       *)
(* A Python dict is a record; a Python list is a sequence.                 *)
(***************************************************************************)
EXTENDS Integers, Sequences, FiniteSets, TLC

VARIABLES
    custom_prompts,  \* table custom_prompts of tmp/prompt_registry.db: name -> row
    usage_log,       \* table usage_log: the rows inserted so far, oldest first
    files,           \* the file system: path -> Optional[content]
    call,            \* the call in progress or just returned (its arguments)
    result,          \* what that call returned
    contents,        \* the ordered list of text blocks given to a pure function
    separator,       \* the separator given with it
    prompt_embeddings, \* table prompt_embeddings: its rows, in rowid order
    auto_indexed,    \* EmbeddingsManager._auto_indexed
    searches,        \* the find_similar calls in progress: thread -> its frame
    progress_queue,  \* table progress_queue of tmp/progress.db: id -> row
    now,             \* the last reading datetime.now() gave
    dedup_log,       \* table dedup_log of tmp/dedup.db: its rows, in id order
    write_safety,    \* table write_safety of tmp/dedup.db: file_path -> last_read
    accepted,        \* history: the calls tool_dedup_guard has logged so far
    loaded_prompts,  \* prompt_loader._loaded_prompts: prompt id -> prompt data
    load_history     \* prompt_loader._load_history: the entries, oldest first

\* the embeddings manager and its table
embed_vars == <<prompt_embeddings, auto_indexed, searches>>
\* the progress queue and its clock
queue_vars == <<progress_queue, now>>
\* the tables of the deduplication guard
guard_vars == <<dedup_log, write_safety, accepted>>
\* the session cache of the prompt loader
loader_vars == <<loaded_prompts, load_history>>

vars == <<custom_prompts, usage_log, files, call, result, contents, separator,
          prompt_embeddings, auto_indexed, searches, progress_queue, now,
          dedup_log, write_safety, accepted, loaded_prompts, load_history>>

-----------------------------------------------------------------------------
(* Bounds of the model.                                                    *)

\* longest list of text blocks given to trim_to_budget
MaxBlocks == 3
\* longest text block given to trim_to_budget, in characters
MaxBlockLen == 12
\* largest max_tokens budget tried
MaxBudget == 3
\* longest list of references given to compose_prompts
MaxRefs == 2
\* most rows of usage_log: a call that may log more is not made
MaxUsage == 2
\* largest list given to deduplicate_content: its blocks plus their characters
MaxDedupSize == 8

-----------------------------------------------------------------------------
(* Python values.                                                          *)

None == << >>
Some(v) == <<v>>
NoCall == [op |-> "none"]
NoResult == [none |-> TRUE]

Min(a, b) == IF a <= b THEN a ELSE b

\* s[i-1] of Python (TLA+ counts from 1)
Char(s, i) == SubSeq(s, i, i)

\* the characters str.isspace() accepts, among those the model's texts use
Whitespace == {" ", "\n", "\t"}

\* s[:n]
Take(s, n) == SubSeq(s, 1, Min(n, Len(s)))

\* s[:n], for an n that may be below 0, which counts from the end
SliceTo(s, n) ==
    IF n >= 0 THEN Take(s, n)
    ELSE IF Len(s) + n > 0 THEN SubSeq(s, 1, Len(s) + n)
    ELSE SubSeq(s, 1, 0)

\* s[n:]
Drop(s, n) == SubSeq(s, n + 1, Len(s))

\* s.startswith(prefix)
StartsWith(s, prefix) == Len(s) >= Len(prefix) /\ Take(s, Len(prefix)) = prefix

RECURSIVE LStrip(_)
LStrip(s) ==
    IF s # "" /\ Char(s, 1) \in Whitespace THEN LStrip(Drop(s, 1)) ELSE s

RECURSIVE RStrip(_)
RStrip(s) ==
    IF s # "" /\ Char(s, Len(s)) \in Whitespace
    THEN RStrip(Take(s, Len(s) - 1))
    ELSE s

\* s.strip()
Strip(s) == RStrip(LStrip(s))

\* sep.join(parts)
RECURSIVE Join(_, _)
Join(parts, sep) ==
    IF parts = << >> THEN ""
    ELSE IF Len(parts) = 1 THEN parts[1]
    ELSE parts[1] \o sep \o Join(Tail(parts), sep)

\* s.split(): the maximal runs of non-whitespace characters, in order
RECURSIVE SplitWords(_, _)
SplitWords(s, word) ==
    IF s = "" THEN (IF word = "" THEN << >> ELSE <<word>>)
    ELSE IF Char(s, 1) \in Whitespace
         THEN (IF word = "" THEN << >> ELSE <<word>>) \o SplitWords(Drop(s, 1), "")
         ELSE SplitWords(Drop(s, 1), word \o Char(s, 1))

\* ' '.join(para.split())
NormalizeWhitespace(para) == Join(SplitWords(para, ""), " ")

\* Where a match of the regular expression \n\s*\n that starts at index i of s
\* ends, or 0 when none starts there.  \s* is greedy: it takes the whole run of
\* whitespace after s[i] and gives characters back until a newline follows, so
\* the match ends at the last newline of that run.
ParagraphBreakEnd(s, i) ==
    IF Char(s, i) # "\n" THEN 0
    ELSE LET ends == {j \in (i + 1)..Len(s) :
                        /\ Char(s, j) = "\n"
                        /\ \A k \in (i + 1)..j : Char(s, k) \in Whitespace}
         IN IF ends = {} THEN 0 ELSE CHOOSE j \in ends : \A k \in ends : k <= j

\* re.split(r'\n\s*\n', s): the pieces between the leftmost non-overlapping matches
RECURSIVE ReSplitParagraphs(_)
ReSplitParagraphs(s) ==
    LET starts == {i \in 1..Len(s) : ParagraphBreakEnd(s, i) > 0}
    IN IF starts = {} THEN <<s>>
       ELSE LET i == CHOOSE x \in starts : \A y \in starts : x <= y
            IN <<Take(s, i - 1)>> \o ReSplitParagraphs(Drop(s, ParagraphBreakEnd(s, i)))

\* [p.strip() for p in pieces if p.strip()]
RECURSIVE StripNonEmpty(_)
StripNonEmpty(pieces) ==
    IF pieces = << >> THEN << >>
    ELSE (IF Strip(pieces[1]) # "" THEN <<Strip(pieces[1])>> ELSE << >>)
         \o StripNonEmpty(Tail(pieces))

\* the paragraphs of one text block
SplitParagraphs(content) == StripNonEmpty(ReSplitParagraphs(content))

-----------------------------------------------------------------------------
(* Token estimator.                                                        *)

\* TOKEN_RATIO = 0.25, in hundredths
TOKEN_RATIO_PERCENT == 25

\* a plausible slip: the characters are counted, not the tokens
estimate_tokens_chars(text) == Len(text)

\* int(len(text) * TOKEN_RATIO); int() of a non-negative float is its floor
estimate_tokens(text) == (Len(text) * TOKEN_RATIO_PERCENT) \div 100


-----------------------------------------------------------------------------
(* Paragraph deduplicator.                                                 *)

\* para[:50]: the length of a removed paragraph's preview
PreviewLen == 50

\* the keys of the OrderedDict seen_paragraphs, kept as a sequence of entries
SeenKeys(seen_paragraphs) ==
    {seen_paragraphs[i].normalized : i \in DOMAIN seen_paragraphs}

\* a plausible slip: paragraphs are compared as written, whitespace included
DedupKey_raw(para) == para

\* normalized = ' '.join(para.split())
DedupKey(para) == NormalizeWhitespace(para)

\* the inner loop, over the paragraphs of one block
RECURSIVE DedupParagraphs(_, _)
DedupParagraphs(paragraphs, acc) ==
    IF paragraphs = << >> THEN acc
    ELSE LET para == paragraphs[1]
             normalized == DedupKey(para)
         IN DedupParagraphs(Tail(paragraphs),
              IF normalized \notin SeenKeys(acc.seen_paragraphs)
              THEN [acc EXCEPT !.seen_paragraphs =
                        Append(@, [normalized |-> normalized, para |-> para])]
              ELSE [acc EXCEPT !.duplicates =
                        Append(@, Take(para, PreviewLen) \o "...")])

\* a plausible slip: seen_paragraphs is created inside the loop over the blocks,
\* so that duplicates are only found within one block
RECURSIVE DedupContents_perblock(_, _)
DedupContents_perblock(blocks, acc) ==
    IF blocks = << >> THEN acc
    ELSE LET one == DedupParagraphs(SplitParagraphs(blocks[1]),
                        [seen_paragraphs |-> << >>, duplicates |-> acc.duplicates])
         IN DedupContents_perblock(Tail(blocks),
                [seen_paragraphs |-> acc.seen_paragraphs \o one.seen_paragraphs,
                 duplicates |-> one.duplicates])

\* the outer loop, over the blocks
RECURSIVE DedupContents(_, _)
DedupContents(blocks, acc) ==
    IF blocks = << >> THEN acc
    ELSE DedupContents(Tail(blocks),
                       DedupParagraphs(SplitParagraphs(blocks[1]), acc))

\* a plausible slip: the unique paragraphs are joined with the separator
deduplicate_content_sep(blocks, sep) ==
    LET acc == DedupContents(blocks, [seen_paragraphs |-> << >>, duplicates |-> << >>])
        unique_paragraphs == [i \in DOMAIN acc.seen_paragraphs |->
                                 acc.seen_paragraphs[i].para]
    IN <<Join(unique_paragraphs, sep), acc.duplicates>>

\* deduplicate_content(contents, separator) -> (text, duplicates)
deduplicate_content(blocks, sep) ==
    LET acc == DedupContents(blocks, [seen_paragraphs |-> << >>, duplicates |-> << >>])
        unique_paragraphs == [i \in DOMAIN acc.seen_paragraphs |->
                                 acc.seen_paragraphs[i].para]
    IN <<Join(unique_paragraphs, "\n\n"), acc.duplicates>>

-----------------------------------------------------------------------------
(* Budget trimmer.                                                         *)

\* the locals of trim_to_budget before its loop
TrimStart ==
    [trimmed |-> << >>, current_tokens |-> 0,
     trimmed_info |-> [kept_prompts |-> 0, dropped_prompts |-> 0]]

\* a plausible slip: the comparison is the wrong way round
RECURSIVE TrimLoop_ge(_, _, _)
TrimLoop_ge(blocks, budget, st) ==
    IF blocks = << >> THEN st
    ELSE LET content == blocks[1]
             content_tokens == estimate_tokens(content)
         IN TrimLoop_ge(Tail(blocks), budget,
              IF st.current_tokens + content_tokens >= budget
              THEN [trimmed |-> Append(st.trimmed, content),
                    current_tokens |-> st.current_tokens + content_tokens,
                    trimmed_info |-> [st.trimmed_info EXCEPT !.kept_prompts = @ + 1]]
              ELSE [st EXCEPT !.trimmed_info.dropped_prompts = @ + 1])

\* a plausible slip: the scan stops at the first block that does not fit
RECURSIVE TrimLoop_break(_, _, _)
TrimLoop_break(blocks, budget, st) ==
    IF blocks = << >> THEN st
    ELSE LET content == blocks[1]
             content_tokens == estimate_tokens(content)
         IN IF st.current_tokens + content_tokens <= budget
            THEN TrimLoop_break(Tail(blocks), budget,
                   [trimmed |-> Append(st.trimmed, content),
                    current_tokens |-> st.current_tokens + content_tokens,
                    trimmed_info |-> [st.trimmed_info EXCEPT !.kept_prompts = @ + 1]])
            ELSE [st EXCEPT !.trimmed_info.dropped_prompts = @ + 1]

\* a plausible slip: the block that does not fit is cut to the tokens that are left
RECURSIVE TrimLoop_cut(_, _, _)
TrimLoop_cut(blocks, budget, st) ==
    IF blocks = << >> THEN st
    ELSE LET content == blocks[1]
             content_tokens == estimate_tokens(content)
         IN TrimLoop_cut(Tail(blocks), budget,
              IF st.current_tokens + content_tokens <= budget
              THEN [trimmed |-> Append(st.trimmed, content),
                    current_tokens |-> st.current_tokens + content_tokens,
                    trimmed_info |-> [st.trimmed_info EXCEPT !.kept_prompts = @ + 1]]
              ELSE [trimmed |-> Append(st.trimmed,
                                   Take(content, 4 * (budget - st.current_tokens))),
                    current_tokens |-> budget,
                    trimmed_info |-> [st.trimmed_info EXCEPT !.dropped_prompts = @ + 1]])

\* the loop of trim_to_budget over the blocks, in input order
RECURSIVE TrimLoop(_, _, _)
TrimLoop(blocks, budget, st) ==
    IF blocks = << >> THEN st
    ELSE LET content == blocks[1]
             content_tokens == estimate_tokens(content)
         IN TrimLoop(Tail(blocks), budget,
              IF st.current_tokens + content_tokens <= budget
              THEN [trimmed |-> Append(st.trimmed, content),
                    current_tokens |-> st.current_tokens + content_tokens,
                    trimmed_info |-> [st.trimmed_info EXCEPT !.kept_prompts = @ + 1]]
              ELSE [st EXCEPT !.trimmed_info.dropped_prompts = @ + 1])

\* trim_to_budget(contents, max_tokens, separator) -> (text, trimmed_info)
trim_to_budget(blocks, budget, sep) ==
    LET st == TrimLoop(blocks, budget, TrimStart)
    IN <<Join(st.trimmed, sep), st.trimmed_info>>

-----------------------------------------------------------------------------
(* Prompt registry.  Its operations read and write the database and read   *)
(* the file system: they take the state st = [custom_prompts, usage_log,   *)
(* files] and return [ret |-> the returned value, st |-> the state left].  *)
(* A row of custom_prompts keeps id, name, content, file_path, tags,       *)
(* parent_prompts, usage_count and tokens; the time stamps and the content *)
(* hash, which no operation reads, are left out.  The rows of usage_log    *)
(* are only ever inserted: the model keeps their number.                   *)

\* Path(path).read_text(): the content, or None when the file cannot be read
ReadText(st, path) ==
    IF path \in DOMAIN st.files THEN st.files[path] ELSE None

\* str(e) of the error read_text raises for a missing file
ReadError(path) == "[Errno 2] No such file or directory: '" \o path \o "'"

\* bool(v) of an Optional[str]: neither None nor ""
Truthy(opt) == opt # None /\ opt[1] # ""

UpperCase == "ABCDEFGHIJKLMNOPQRSTUVWXYZ"
LowerCase == "abcdefghijklmnopqrstuvwxyz"

\* s.lower().replace(" ", "_"), for ASCII names
RECURSIVE PromptId(_)
PromptId(name) ==
    IF name = "" THEN ""
    ELSE LET c == Char(name, 1)
             up == {k \in 1..Len(UpperCase) : Char(UpperCase, k) = c}
         IN (IF c = " " THEN "_"
             ELSE IF up # {} THEN Char(LowerCase, CHOOSE k \in up : TRUE)
             ELSE c) \o PromptId(Drop(name, 1))

\* the map default_prompts of get_default_prompt
default_prompts ==
    [ask_plan_act |-> "prompts/axioms/CORE.md",
     quality_axioms |-> "prompts/axioms/QUALITY.md",
     patterns |-> "prompts/axioms/PATTERNS.md",
     safe_coding |-> "prompts/patterns/safe_coding.md",
     context_economy |-> "prompts/patterns/context_economy.md",
     echo_emoji |-> "prompts/patterns/echo_emoji.md",
     debugging_methodology |-> "prompts/patterns/debugging_methodology.md",
     code_review |-> "prompts/patterns/code_review.md",
     documentation |-> "prompts/patterns/documentation.md",
     testing_strategy |-> "prompts/patterns/testing_strategy.md",
     implementation_guide |-> "prompts/meta/implementation-plan.md",
     design_rationale |-> "prompts/meta/design-rationale.md"]

\* get_default_prompt(name) -> Optional[dict]
get_default_prompt(st, name) ==
    IF name \notin DOMAIN default_prompts THEN None
    ELSE LET file_path == default_prompts[name]
         IN IF ReadText(st, file_path) = None THEN None
            ELSE LET content == ReadText(st, file_path)[1]
                 IN Some([name |-> name,
                          content |-> content,
                          type |-> "default",
                          path |-> file_path,
                          tokens |-> estimate_tokens(content)])

\* log_usage(name, prompt_type, tokens): one more row in usage_log, and one more
\* use counted for the custom prompt of that name
log_usage(st, name, prompt_type, tokens) ==
    [st EXCEPT
        !.usage_log = @ + 1,
        !.custom_prompts =
            IF prompt_type = "custom" /\ name \in DOMAIN @
            THEN [@ EXCEPT ![name].usage_count = @ + 1]
            ELSE @]

\* get_prompt(name) -> dict
get_prompt(st, name) ==
    LET default == get_default_prompt(st, name)
    IN IF default # None
       THEN [ret |-> default[1],
             st |-> log_usage(st, name, "default", default[1].tokens)]
       ELSE IF name \notin DOMAIN st.custom_prompts
       THEN [ret |-> [error |-> "Prompt '" \o name \o "' not found in registry"],
             st |-> st]
       ELSE LET row == st.custom_prompts[name]
                from_file == Truthy(row.file_path) /\ ~Truthy(row.content)
            IN IF from_file /\ ReadText(st, row.file_path[1]) = None
               THEN [ret |-> [error |-> "Failed to load file '" \o row.file_path[1]
                                           \o "': " \o ReadError(row.file_path[1])],
                     st |-> st]
               ELSE LET content == IF from_file
                                   THEN ReadText(st, row.file_path[1])
                                   ELSE row.content
                        tokens == IF from_file
                                  THEN Some(estimate_tokens(content[1]))
                                  ELSE row.tokens
                    IN [ret |-> [name |-> row.name,
                                 content |-> content[1],
                                 type |-> "custom",
                                 file_path |-> row.file_path,
                                 tags |-> row.tags,
                                 parent_prompts |-> row.parent_prompts,
                                 tokens |-> tokens[1]],
                        st |-> log_usage(st, row.name, "custom", tokens[1])]

\* save_prompt: tokens = estimate_tokens(content) of a content, None of a file
SavedTokens(content) == Some(estimate_tokens(content[1]))

\* a save_prompt whose INSERT is an INSERT OR REPLACE: a save under a saved
\* name overwrites the entry
save_prompt_replace(st, name, content, file_path, tags, parent_prompts) ==
    IF Truthy(content) = Truthy(file_path)
    THEN [ret |-> [error |-> IF Truthy(content)
                             THEN "Cannot provide both content and file_path"
                             ELSE "Must provide either content or file_path"],
          st |-> st]
    ELSE LET tokens == IF Truthy(content) THEN SavedTokens(content) ELSE None
             row == [id |-> PromptId(name), name |-> name, content |-> content,
                     file_path |-> file_path, tags |-> << >>,
                     parent_prompts |-> << >>, usage_count |-> 0,
                     tokens |-> tokens]
         IN [ret |-> [saved |-> TRUE, name |-> name,
                      type |-> IF Truthy(content) THEN "content"
                               ELSE "file_reference",
                      tokens |-> tokens, tags |-> << >>,
                      parent_prompts |-> << >>],
             st |-> [st EXCEPT !.custom_prompts =
                        (name :> row) @@ [n \in DOMAIN @ \ {name} |-> @[n]]]]

\* a save_prompt whose table has no primary key: only the name is unique
save_prompt_name_only(st, name, content, file_path, tags, parent_prompts) ==
    IF Truthy(content) = Truthy(file_path)
    THEN [ret |-> [error |-> IF Truthy(content)
                             THEN "Cannot provide both content and file_path"
                             ELSE "Must provide either content or file_path"],
          st |-> st]
    ELSE IF name \in DOMAIN st.custom_prompts
    THEN [ret |-> [error |-> "Prompt with name '" \o name \o "' already exists"],
          st |-> st]
    ELSE save_prompt_replace(st, name, content, file_path, tags, parent_prompts)

\* save_prompt(name, content, file_path, tags, parent_prompts) -> dict
save_prompt(st, name, content, file_path, tags, parent_prompts) ==
    IF ~Truthy(content) /\ ~Truthy(file_path)
    THEN [ret |-> [error |-> "Must provide either content or file_path"], st |-> st]
    ELSE IF Truthy(content) /\ Truthy(file_path)
    THEN [ret |-> [error |-> "Cannot provide both content and file_path"], st |-> st]
    ELSE LET tokens == IF Truthy(content) THEN SavedTokens(content) ELSE None
             row == [id |-> PromptId(name),
                     name |-> name,
                     content |-> content,
                     file_path |-> file_path,
                     tags |-> IF tags = None THEN << >> ELSE tags[1],
                     parent_prompts |-> IF parent_prompts = None THEN << >>
                                        ELSE parent_prompts[1],
                     usage_count |-> 0,
                     tokens |-> tokens]
             \* id TEXT PRIMARY KEY, name TEXT UNIQUE: sqlite3.IntegrityError
             integrity_error ==
                 \E n \in DOMAIN st.custom_prompts :
                     \/ st.custom_prompts[n].id = row.id
                     \/ st.custom_prompts[n].name = name
         IN IF integrity_error
            THEN [ret |-> [error |-> "Prompt with name '" \o name \o "' already exists"],
                  st |-> st]
            ELSE [ret |-> [saved |-> TRUE,
                           name |-> name,
                           type |-> IF Truthy(content) THEN "content"
                                    ELSE "file_reference",
                           tokens |-> tokens,
                           tags |-> row.tags,
                           parent_prompts |-> row.parent_prompts],
                  st |-> [st EXCEPT !.custom_prompts = (name :> row) @@ @]]

\* the locals of load_prompts before its loop
LoadStart(st) == [loaded |-> << >>, errors |-> << >>, total_tokens |-> 0, st |-> st]

\* one turn of the loop of load_prompts, for the reference ref
LoadOne(acc, ref) ==
    IF StartsWith(ref, "file:")
    THEN LET file_path == Drop(ref, 5)
             content == ReadText(acc.st, file_path)
         IN IF content # None
            THEN LET tokens == estimate_tokens(content[1])
                 IN [loaded |-> Append(acc.loaded,
                                   [ref |-> ref, content |-> content[1],
                                    type |-> "file", path |-> file_path,
                                    tokens |-> tokens]),
                     errors |-> acc.errors,
                     total_tokens |-> acc.total_tokens + tokens,
                     st |-> log_usage(acc.st, file_path, "file", tokens)]
            ELSE [acc EXCEPT !.errors =
                      Append(@, [ref |-> ref, error |-> ReadError(file_path)])]
    ELSE IF StartsWith(ref, "shippopotamus:")
    THEN LET name == Drop(ref, 14)
             prompt == get_default_prompt(acc.st, name)
         IN IF prompt # None
            THEN [loaded |-> Append(acc.loaded, [ref |-> ref] @@ prompt[1]),
                  errors |-> acc.errors,
                  total_tokens |-> acc.total_tokens + prompt[1].tokens,
                  st |-> log_usage(acc.st, name, "default", prompt[1].tokens)]
            ELSE [acc EXCEPT !.errors =
                      Append(@, [ref |-> ref,
                                 error |-> "Default prompt '" \o name \o "' not found"])]
    ELSE LET name == IF StartsWith(ref, "custom:") THEN Drop(ref, 7) ELSE ref
             got == get_prompt(acc.st, name)
         IN IF "error" \notin DOMAIN got.ret
            THEN [loaded |-> Append(acc.loaded, [ref |-> ref] @@ got.ret),
                  errors |-> acc.errors,
                  total_tokens |-> acc.total_tokens + got.ret.tokens,
                  st |-> got.st]
            ELSE [acc EXCEPT !.errors =
                      Append(@, [ref |-> ref, error |-> got.ret.error])]

\* a loader that gives up at the first reference that fails
RECURSIVE LoadLoop_abort(_, _)
LoadLoop_abort(acc, prompt_refs) ==
    IF prompt_refs = << >> \/ acc.errors # << >> THEN acc
    ELSE LoadLoop_abort(LoadOne(acc, prompt_refs[1]), Tail(prompt_refs))

\* for ref in prompt_refs: ...
RECURSIVE LoadLoop(_, _)
LoadLoop(acc, prompt_refs) ==
    IF prompt_refs = << >> THEN acc
    ELSE LoadLoop(LoadOne(acc, prompt_refs[1]), Tail(prompt_refs))

\* load_prompts(prompt_refs) -> dict
load_prompts(st, prompt_refs) ==
    LET acc == LoadLoop(LoadStart(st), prompt_refs)
    IN [ret |-> [loaded |-> acc.loaded,
                 errors |-> acc.errors,
                 total_prompts |-> Len(acc.loaded),
                 total_tokens |-> acc.total_tokens,
                 success_rate |-> ToString(Len(acc.loaded)) \o "/"
                                     \o ToString(Len(prompt_refs))],
        st |-> acc.st]

-----------------------------------------------------------------------------
(* Composer.                                                               *)

\* a budget test that takes 0 for a budget: max_tokens is not None
HasBudget_is_not_none(max_tokens) == max_tokens # None

\* bool(max_tokens) of an Optional[int]: neither None nor 0
HasBudget(max_tokens) == max_tokens # None /\ max_tokens[1] # 0

\* a plausible slip: the budget trims what the deduplication left
ComposeLoaded_dedup_then_trim(loaded_result, deduplicate, max_tokens, sep) ==
    LET loaded == loaded_result.loaded
        blocks == [k \in DOMAIN loaded |-> loaded[k].content]
        deduped == deduplicate_content(blocks, sep)
        metadata == [sources |-> [k \in DOMAIN loaded |->
                                     [ref |-> loaded[k].ref,
                                      type |-> loaded[k].type,
                                      tokens |-> loaded[k].tokens]],
                     total_original_tokens |-> loaded_result.total_tokens,
                     removed_duplicates |-> IF deduplicate THEN deduped[2] ELSE << >>]
        composed_content == IF deduplicate THEN deduped[1] ELSE Join(blocks, sep)
        composed_tokens == estimate_tokens(composed_content)
        trimmed == trim_to_budget(IF deduplicate THEN SplitParagraphs(deduped[1])
                                  ELSE blocks, max_tokens[1], sep)
    IN IF loaded = << >>
       THEN [error |-> "No prompts could be loaded", errors |-> loaded_result.errors]
       ELSE IF HasBudget(max_tokens) /\ composed_tokens > max_tokens[1]
       THEN [content |-> trimmed[1],
             tokens |-> estimate_tokens(trimmed[1]),
             metadata |-> [trimmed |-> trimmed[2]] @@ metadata,
             sources |-> loaded,
             errors |-> loaded_result.errors]
       ELSE [content |-> composed_content,
             tokens |-> composed_tokens,
             metadata |-> metadata,
             sources |-> loaded,
             errors |-> loaded_result.errors]

\* compose_prompts after its call of load_prompts
ComposeLoaded(loaded_result, deduplicate, max_tokens, sep) ==
    LET loaded == loaded_result.loaded
        blocks == [k \in DOMAIN loaded |-> loaded[k].content]
        deduped == deduplicate_content(blocks, sep)
        metadata == [sources |-> [k \in DOMAIN loaded |->
                                     [ref |-> loaded[k].ref,
                                      type |-> loaded[k].type,
                                      tokens |-> loaded[k].tokens]],
                     total_original_tokens |-> loaded_result.total_tokens,
                     removed_duplicates |-> IF deduplicate THEN deduped[2] ELSE << >>]
        composed_content == IF deduplicate THEN deduped[1] ELSE Join(blocks, sep)
        composed_tokens == estimate_tokens(composed_content)
        trimmed == trim_to_budget(blocks, max_tokens[1], sep)
    IN IF loaded = << >>
       THEN [error |-> "No prompts could be loaded", errors |-> loaded_result.errors]
       ELSE IF HasBudget(max_tokens) /\ composed_tokens > max_tokens[1]
       THEN [content |-> trimmed[1],
             tokens |-> estimate_tokens(trimmed[1]),
             metadata |-> [trimmed |-> trimmed[2]] @@ metadata,
             sources |-> loaded,
             errors |-> loaded_result.errors]
       ELSE [content |-> composed_content,
             tokens |-> composed_tokens,
             metadata |-> metadata,
             sources |-> loaded,
             errors |-> loaded_result.errors]

\* compose_prompts(prompt_refs, deduplicate, max_tokens, separator) -> dict
compose_prompts(st, prompt_refs, deduplicate, max_tokens, sep) ==
    LET loaded_result == load_prompts(st, prompt_refs)
    IN [ret |-> ComposeLoaded(loaded_result.ret, deduplicate, max_tokens, sep),
        st |-> loaded_result.st]

\* get_token_recommendations(tokens) -> List[str]
get_token_recommendations(tokens) ==
    (IF tokens > 100000
        THEN <<"Very large context - consider splitting into multiple interactions">>
     ELSE IF tokens > 50000
        THEN <<"Large context - ensure all content is necessary">>
     ELSE IF tokens > 20000
        THEN <<"Moderate context - good for detailed work">>
     ELSE << >>)
    \o (IF tokens > 10000
           THEN <<"Consider using compose_prompts with deduplication">>
        ELSE << >>)

\* bool(v) of an Optional[List]: neither None nor []
TruthyList(opt) == opt # None /\ Len(opt[1]) > 0

\* estimate_context(content, prompt_refs) -> dict.  The percentages it reports,
\* rounded floats that nothing else reads, are left out of the dict.
estimate_context(st, content, prompt_refs) ==
    IF ~Truthy(content) /\ ~TruthyList(prompt_refs)
      THEN [ret |-> [error |-> "Must provide either content or prompt_refs"],
            st |-> st]
    ELSE IF Truthy(content) /\ TruthyList(prompt_refs)
      THEN [ret |-> [error |-> "Provide either content or prompt_refs, not both"],
            st |-> st]
    ELSE IF Truthy(content)
      THEN LET tokens == estimate_tokens(content[1])
           IN [ret |-> [tokens |-> tokens,
                        characters |-> Len(content[1]),
                        fits_in_small_context |-> tokens < 4000,
                        fits_in_medium_context |-> tokens < 20000,
                        fits_in_large_context |-> tokens < 100000],
               st |-> st]
    ELSE LET loaded == load_prompts(st, prompt_refs[1])
         IN [ret |-> [total_tokens |-> loaded.ret.total_tokens,
                      breakdown |-> [k \in DOMAIN loaded.ret.loaded |->
                                       [ref |-> loaded.ret.loaded[k].ref,
                                        tokens |-> loaded.ret.loaded[k].tokens]],
                      errors |-> loaded.ret.errors,
                      recommendations |->
                          get_token_recommendations(loaded.ret.total_tokens)],
             st |-> loaded.st]

-----------------------------------------------------------------------------
(* Inputs of the pure functions.                                           *)

\* separator: str = "\n\n---\n\n"
DefaultSeparator == "\n\n---\n\n"

\* the separators tried: compose_prompts' default, and a blank line
Separators == {DefaultSeparator, "\n\n"}

\* n copies of the character c
RECURSIVE Fill(_, _)
Fill(c, n) == IF n = 0 THEN "" ELSE c \o Fill(c, n - 1)

\* the starter_prompts of bootstrap_session
starter_prompts == <<"ask_plan_act", "quality_axioms", "context_economy", "safe_coding">>

\* the separator bootstrap_session composes with: "\n\n" + "=" * 60 + "\n\n"
BootstrapSeparator == "\n\n" \o Fill("=", 60) \o "\n\n"

\* bootstrap_session: the line of capabilities for a source; the marks that
\* are not ASCII are written as (check), (bullet), (hippo), (bulb) and ->
Capability(ref) ==
    IF ref = "ask_plan_act"
    THEN <<"(bullet) Ask->Plan->Act methodology for structured problem solving">>
    ELSE IF ref = "quality_axioms"
    THEN <<"(bullet) Quality principles for robust implementations">>
    ELSE IF ref = "context_economy"
    THEN <<"(bullet) Context-aware loading to optimize token usage">>
    ELSE IF ref = "safe_coding"
    THEN <<"(bullet) Security best practices for safe code generation">>
    ELSE << >>

\* bootstrap_session: capabilities, of the sources in their order
RECURSIVE Capabilities(_)
Capabilities(sources) ==
    IF sources = << >> THEN << >>
    ELSE Capability(sources[1].ref) \o Capabilities(Tail(sources))

\* bootstrap_session: quick_reference
quick_reference ==
    [core_tools |-> <<"get_prompt(name) - Load specific prompts",
                      "save_prompt(...) - Save custom prompts",
                      "compose_prompts([...]) - Combine multiple prompts",
                      "list_available() - See all available prompts">>,
     prompt_prefixes |-> <<"default: ask_plan_act",
                           "custom: your_saved_prompt",
                           "file: ./path/to/prompt.md">>,
     next_steps |-> <<"Use list_available() to explore more prompts",
                      "Save team-specific prompts with save_prompt()",
                      "Load additional prompts as needed with get_prompt()">>]

\* bootstrap_session after its call of compose_prompts, which returned
\* compose_result
Bootstrapped(compose_result) ==
    IF "error" \in DOMAIN compose_result
    THEN [error |-> "Failed to bootstrap session", details |-> compose_result.error]
    ELSE [status |-> "(hippo) Session bootstrapped successfully!",
          loaded_prompts |-> [k \in DOMAIN compose_result.sources |->
                                 "(check) " \o compose_result.sources[k].ref],
          tokens_loaded |-> compose_result.tokens,
          capabilities_enabled |-> Capabilities(compose_result.sources),
          quick_reference |-> quick_reference,
          tip |-> "(bulb) Your session now includes proven methodologies. Use them to approach tasks systematically!"]

\* bootstrap_session with what its call of compose_prompts gave
BootstrapComposed(composed) == [ret |-> Bootstrapped(composed.ret), st |-> composed.st]

\* bootstrap_session() -> dict
bootstrap_session(st) ==
    BootstrapComposed(compose_prompts(st, starter_prompts, TRUE, None,
                                      BootstrapSeparator))

\* the i-th block of a list given to trim_to_budget is written in its own letter,
\* so that the blocks of a list can be told apart in the output
BlockLetter(i) == Char("abcdefghijklmnopqrstuvwxyz", i)

\* the lists given to trim_to_budget: up to MaxBlocks blocks of 0..MaxBlockLen
\* characters each
TrimInputs ==
    UNION {{[i \in 1..k |-> Fill(BlockLetter(i), lens[i])] :
                lens \in [1..k -> 0..MaxBlockLen]} : k \in 0..MaxBlocks}

\* the characters of the texts given to deduplicate_content
DedupAlphabet == {"a", " ", "\n"}

\* the texts of exactly n characters
RECURSIVE TextsOfLen(_)
TextsOfLen(n) ==
    IF n = 0 THEN {""}
    ELSE {t \o c : t \in TextsOfLen(n - 1), c \in DedupAlphabet}

\* the lists of blocks of at most the given size, where the size of a list is
\* the number of its blocks plus the number of their characters
RECURSIVE BlockLists(_)
BlockLists(size) ==
    IF size = 0 THEN {<< >>}
    ELSE {<< >>} \cup
         UNION {{<<t>> \o rest : t \in TextsOfLen(len),
                                 rest \in BlockLists(size - 1 - len)} :
                    len \in 0..(size - 1)}

\* no embeddings manager has been made
EmbeddingsIdle ==
    /\ prompt_embeddings = << >>
    /\ auto_indexed = FALSE
    /\ searches = << >>

\* the deduplication guard has not been called
GuardIdle ==
    /\ dedup_log = << >>
    /\ write_safety = << >>
    /\ accepted = {}

\* the prompt loader has loaded nothing
LoaderIdle ==
    /\ loaded_prompts = << >>
    /\ load_history = << >>

\* no progress queue has been made
QueueIdle ==
    /\ progress_queue = << >>
    /\ now = 0

\* the registry plays no part in the pure functions
RegistryIdle ==
    /\ custom_prompts = << >>
    /\ usage_log = 0
    /\ files = << >>

-----------------------------------------------------------------------------
(* Spec: a session of calls of save_prompt, compose_prompts,               *)
(* estimate_context and bootstrap_session.  A call is made when none is in *)
(* progress; Return hands its result to the caller.                        *)

\* the state the registry operations work on
State == [custom_prompts |-> custom_prompts, usage_log |-> usage_log, files |-> files]

\* the names prompts are saved under
Names == {"base", "extension"}

\* the contents prompts are saved with: two that share their second paragraph,
\* and one that is larger than every budget tried
BaseText == "Base\n\nS"
ExtensionText == "More\n\nS"
LargeText == Fill("x", 4 * (MaxBudget + 1))
SavedTexts == {BaseText, ExtensionText, LargeText}

\* the files a prompt is saved as a reference to: one that exists, one that does not
SavedPaths == {"notes.md", "gone.md"}

\* the files of the installation: one builtin prompt and one note
InstalledFiles ==
    ("prompts/axioms/CORE.md" :> Some("Core\n\nS")) @@ ("notes.md" :> Some("Note\n\nS"))

\* the references composed
Refs == {"base", "extension", "ask_plan_act", "shippopotamus:ask_plan_act",
         "shippopotamus:quality_axioms", "file:notes.md", "file:gone.md"}

RefLists == UNION {[1..k -> Refs] : k \in 0..MaxRefs}

\* max_tokens: None, or a budget
Budgets == {None} \cup {Some(m) : m \in 0..MaxBudget}

\* content of estimate_context: None, the empty text, or a text
EstimatedTexts == {None, Some(""), Some(BaseText), Some(LargeText)}

\* prompt_refs of estimate_context: None, the empty list, or one reference
EstimatedRefs == {None, Some(<< >>)} \cup {Some(<<ref>>) : ref \in Refs}

Init ==
    /\ custom_prompts = << >>
    /\ usage_log = 0
    /\ files = InstalledFiles
    /\ call = NoCall
    /\ result = NoResult
    /\ contents = << >>
    /\ separator = DefaultSeparator
    /\ EmbeddingsIdle
    /\ GuardIdle
    /\ LoaderIdle
    /\ QueueIdle

SavePrompt(name, content, file_path) ==
    /\ call = NoCall
    /\ LET out == save_prompt(State, name, content, file_path, None, None)
       IN /\ custom_prompts' = out.st.custom_prompts
          /\ usage_log' = out.st.usage_log
          /\ result' = out.ret
    /\ call' = [op |-> "save_prompt", name |-> name,
                content |-> content, file_path |-> file_path]
    /\ UNCHANGED <<guard_vars, loader_vars, files, contents, separator, embed_vars, queue_vars>>

ComposePrompts(prompt_refs, deduplicate, max_tokens, sep) ==
    /\ call = NoCall
    /\ LET out == compose_prompts(State, prompt_refs, deduplicate, max_tokens, sep)
       IN /\ custom_prompts' = out.st.custom_prompts
          /\ usage_log' = out.st.usage_log
          /\ result' = out.ret
    /\ call' = [op |-> "compose_prompts", prompt_refs |-> prompt_refs,
                deduplicate |-> deduplicate, max_tokens |-> max_tokens,
                separator |-> sep]
    /\ UNCHANGED <<guard_vars, loader_vars, files, contents, separator, embed_vars, queue_vars>>

\* a call of bootstrap_session; it logs a usage for each starter prompt it
\* loads, and is made when the log has room for them
BootstrapSessionWithin(max_usage) ==
    /\ call = NoCall
    /\ \E out \in {bootstrap_session(State)} :
          /\ out.st.usage_log <= max_usage
          /\ custom_prompts' = out.st.custom_prompts
          /\ usage_log' = out.st.usage_log
          /\ result' = out.ret
    /\ call' = [op |-> "bootstrap_session"]
    /\ UNCHANGED <<guard_vars, loader_vars, files, contents, separator, embed_vars, queue_vars>>

BootstrapSession == BootstrapSessionWithin(MaxUsage)

EstimateContext(content, prompt_refs) ==
    /\ call = NoCall
    /\ LET out == estimate_context(State, content, prompt_refs)
       IN /\ custom_prompts' = out.st.custom_prompts
          /\ usage_log' = out.st.usage_log
          /\ result' = out.ret
    /\ call' = [op |-> "estimate_context", content |-> content,
                prompt_refs |-> prompt_refs]
    /\ UNCHANGED <<guard_vars, loader_vars, files, contents, separator, embed_vars, queue_vars>>

Return ==
    /\ call # NoCall
    /\ call' = NoCall
    /\ result' = NoResult
    /\ UNCHANGED <<guard_vars, loader_vars, custom_prompts, usage_log, files, contents, separator,
                   embed_vars, queue_vars>>

Next ==
    \/ \E name \in Names,
          content \in {None} \cup {Some(t) : t \in SavedTexts},
          file_path \in {None} \cup {Some(path) : path \in SavedPaths} :
            SavePrompt(name, content, file_path)
    \/ \E prompt_refs \in RefLists, deduplicate \in BOOLEAN,
          max_tokens \in Budgets, sep \in Separators :
            /\ usage_log + Len(prompt_refs) <= MaxUsage
            /\ ComposePrompts(prompt_refs, deduplicate, max_tokens, sep)
    \/ \E content \in EstimatedTexts, prompt_refs \in EstimatedRefs :
            /\ usage_log + (IF prompt_refs = None THEN 0 ELSE Len(prompt_refs[1]))
                  <= MaxUsage
            /\ EstimateContext(content, prompt_refs)
    \/ BootstrapSession
    \/ Return

Spec == Init /\ [][Next]_vars

-----------------------------------------------------------------------------
(* SpecRegistry: a session of calls of save_prompt, get_prompt and         *)
(* load_prompts, with a prompt saved under the name of a builtin prompt.   *)

\* the names prompts are saved and looked up under: one that is the name of a
\* builtin prompt, and one that is not
RegistryNames == {"base", "ask_plan_act"}

\* the contents they are saved with
RegistryTexts == {BaseText, ExtensionText}

\* the references loaded: each name bare and as custom:<name>
RegistryRefs == RegistryNames \cup {"custom:" \o name : name \in RegistryNames}

RegistryRefLists == UNION {[1..k -> RegistryRefs] : k \in 0..MaxRefs}

GetPrompt(name) ==
    /\ call = NoCall
    /\ LET out == get_prompt(State, name)
       IN /\ custom_prompts' = out.st.custom_prompts
          /\ usage_log' = out.st.usage_log
          /\ result' = out.ret
    /\ call' = [op |-> "get_prompt", name |-> name]
    /\ UNCHANGED <<guard_vars, loader_vars, files, contents, separator, embed_vars, queue_vars>>

LoadPrompts(prompt_refs) ==
    /\ call = NoCall
    /\ LET out == load_prompts(State, prompt_refs)
       IN /\ custom_prompts' = out.st.custom_prompts
          /\ usage_log' = out.st.usage_log
          /\ result' = out.ret
    /\ call' = [op |-> "load_prompts", prompt_refs |-> prompt_refs]
    /\ UNCHANGED <<guard_vars, loader_vars, files, contents, separator, embed_vars, queue_vars>>

NextRegistry ==
    \/ \E name \in RegistryNames,
          content \in {None} \cup {Some(t) : t \in RegistryTexts},
          file_path \in {None} \cup {Some(path) : path \in SavedPaths} :
            SavePrompt(name, content, file_path)
    \/ \E name \in RegistryNames :
            /\ usage_log + 1 <= MaxUsage
            /\ GetPrompt(name)
    \/ \E prompt_refs \in RegistryRefLists :
            /\ usage_log + Len(prompt_refs) <= MaxUsage
            /\ LoadPrompts(prompt_refs)
    \/ Return

SpecRegistry == Init /\ [][NextRegistry]_vars

-----------------------------------------------------------------------------
(* SpecBootstrap: calls of bootstrap_session in an installation that has   *)
(* all four starter prompts, in one that has the first only, and in one    *)
(* that has none.                                                          *)

\* most usages logged by the calls of bootstrap_session: two calls that load
\* the four starter prompts
MaxStarterUsage == 8

\* the files of an installation with the four starter prompts
StarterFiles ==
    ("prompts/axioms/CORE.md" :> Some("Core\n\nS"))
    @@ ("prompts/axioms/QUALITY.md" :> Some("Quality\n\nS"))
    @@ ("prompts/patterns/context_economy.md" :> Some("Economy\n\nS"))
    @@ ("prompts/patterns/safe_coding.md" :> Some("Safe\n\nS"))

InitBootstrap ==
    /\ custom_prompts = << >>
    /\ usage_log = 0
    /\ files \in {StarterFiles, InstalledFiles, << >>}
    /\ call = NoCall
    /\ result = NoResult
    /\ contents = << >>
    /\ separator = DefaultSeparator
    /\ EmbeddingsIdle
    /\ GuardIdle
    /\ LoaderIdle
    /\ QueueIdle

NextBootstrap ==
    \/ BootstrapSessionWithin(MaxStarterUsage)
    \/ Return

SpecBootstrap == InitBootstrap /\ [][NextBootstrap]_vars

-----------------------------------------------------------------------------
(* SpecTrim: trim_to_budget on a fixed list of blocks, under one budget    *)
(* after another.                                                          *)

InitTrim ==
    /\ RegistryIdle
    /\ contents \in TrimInputs
    /\ separator \in Separators
    /\ call = NoCall
    /\ result = NoResult
    /\ EmbeddingsIdle
    /\ GuardIdle
    /\ LoaderIdle
    /\ QueueIdle

TrimToBudget(budget) ==
    /\ call' = [op |-> "trim_to_budget", max_tokens |-> budget]
    /\ result' = trim_to_budget(contents, budget, separator)
    /\ UNCHANGED <<guard_vars, loader_vars, custom_prompts, usage_log, files, contents, separator,
                   embed_vars, queue_vars>>

NextTrim == \E budget \in 0..MaxBudget : TrimToBudget(budget)

SpecTrim == InitTrim /\ [][NextTrim]_vars

-----------------------------------------------------------------------------
(* SpecDedup: deduplicate_content on a list of blocks, then on its own     *)
(* output as a single block.                                               *)

\* the file that holds the i-th block
BlockPath(i) == "block" \o ToString(i) \o ".md"

InitDedup ==
    /\ contents \in BlockLists(MaxDedupSize)
    /\ separator = DefaultSeparator
    /\ custom_prompts = << >>
    /\ usage_log = 0
    /\ files = [path \in {BlockPath(i) : i \in DOMAIN contents} |->
                   Some(contents[CHOOSE i \in DOMAIN contents : BlockPath(i) = path])]
    /\ call = NoCall
    /\ result = NoResult
    /\ EmbeddingsIdle
    /\ GuardIdle
    /\ LoaderIdle
    /\ QueueIdle

DeduplicateContent ==
    /\ call = NoCall
    /\ call' = [op |-> "deduplicate_content", pass |-> 1]
    /\ result' = deduplicate_content(contents, separator)
    /\ UNCHANGED <<guard_vars, loader_vars, custom_prompts, usage_log, files, contents, separator,
                   embed_vars, queue_vars>>

DeduplicateOutput ==
    /\ call.op = "deduplicate_content"
    /\ call.pass = 1
    /\ contents' = <<result[1]>>
    /\ call' = [op |-> "deduplicate_content", pass |-> 2]
    /\ result' = deduplicate_content(contents', separator)
    /\ UNCHANGED <<guard_vars, loader_vars, custom_prompts, usage_log, files, separator,
                   embed_vars, queue_vars>>

\* compose_prompts on the blocks, each read from its file, with deduplicate=True
\* and no budget
ComposeBlockFiles ==
    ComposePrompts([i \in DOMAIN contents |-> "file:" \o BlockPath(i)],
                   TRUE, None, separator)

NextDedup == DeduplicateContent \/ DeduplicateOutput \/ ComposeBlockFiles

SpecDedup == InitDedup /\ [][NextDedup]_vars

-----------------------------------------------------------------------------
(* What the properties below are stated with.                              *)

\* the entries of seq at the indices in S, in the order of seq
RECURSIVE SubList(_, _, _)
SubList(seq, S, i) ==
    IF i > Len(seq) THEN << >>
    ELSE (IF i \in S THEN <<seq[i]>> ELSE << >>) \o SubList(seq, S, i + 1)

\* the sum of the token estimates of the blocks at the indices in S
RECURSIVE SumEstimates(_, _)
SumEstimates(blocks, S) ==
    IF S = {} THEN 0
    ELSE LET i == CHOOSE x \in S : TRUE
         IN ((Len(blocks[i]) * TOKEN_RATIO_PERCENT) \div 100)
            + SumEstimates(blocks, S \ {i})

\* the sum of the token estimates of the blocks trim_to_budget keeps under a budget
KeptTokens(blocks, budget) ==
    LET kept == TrimLoop(blocks, budget, TrimStart).trimmed
    IN SumEstimates(kept, DOMAIN kept)

\* the paragraphs of all the blocks: block order, then paragraph order in a block
RECURSIVE AllParagraphs(_)
AllParagraphs(blocks) ==
    IF blocks = << >> THEN << >>
    ELSE SplitParagraphs(blocks[1]) \o AllParagraphs(Tail(blocks))

\* whether paras[k] is the first paragraph with its whitespace-normalized text
IsFirstOccurrence(paras, k) ==
    \A j \in 1..(k - 1) :
        NormalizeWhitespace(paras[j]) # NormalizeWhitespace(paras[k])

FirstOccurrences(paras) ==
    SubList(paras, {k \in DOMAIN paras : IsFirstOccurrence(paras, k)}, 1)

LaterOccurrences(paras) ==
    SubList(paras, {k \in DOMAIN paras : ~IsFirstOccurrence(paras, k)}, 1)

IsTrimCall == call.op = "trim_to_budget"
IsDedupCall == call.op = "deduplicate_content"
IsComposeCall == call.op = "compose_prompts"

\* compose_prompts returned a composition, not the top-level error
Composed == IsComposeCall /\ "content" \in DOMAIN result

\* the contents compose_prompts resolved, in the order of the references
ResolvedContents == [k \in DOMAIN result.sources |-> result.sources[k].content]

\* whether a reference resolves in the current registry and file system
Readable(path) == path \in DOMAIN files /\ files[path] # None
DefaultReadable(name) ==
    name \in DOMAIN default_prompts /\ Readable(default_prompts[name])
CustomReadable(name) ==
    /\ name \in DOMAIN custom_prompts
    /\ \/ Truthy(custom_prompts[name].content)
       \/ (Truthy(custom_prompts[name].file_path)
           /\ Readable(custom_prompts[name].file_path[1]))
Resolves(ref) ==
    IF StartsWith(ref, "file:") THEN Readable(Drop(ref, 5))
    ELSE IF StartsWith(ref, "shippopotamus:") THEN DefaultReadable(Drop(ref, 14))
    ELSE LET name == IF StartsWith(ref, "custom:") THEN Drop(ref, 7) ELSE ref
         IN DefaultReadable(name) \/ CustomReadable(name)

\* t = floor(n * 0.25), said without a division
IsFloorOfQuarter(t, n) == 4 * t <= n /\ n < 4 * (t + 1)

-----------------------------------------------------------------------------
(* Budget trimmer: properties (SpecTrim).                                  *)

\* C2, as claimed: for a fixed list of blocks and separator, when trim_to_budget
\* is run with a budget and then with a budget at least as large, the second
\* run keeps at least as many blocks as the first.
C2_KeptCountMonotonic ==
    [][(IsTrimCall /\ call'.op = "trim_to_budget"
        /\ call.max_tokens <= call'.max_tokens)
       => result'[2].kept_prompts >= result[2].kept_prompts]_vars

\* C2, amended: the sum of the token estimates of the kept blocks never
\* decreases when the budget grows: under every budget below the one of the
\* call it is at most what the call keeps.
C2_KeptTokensMonotonic ==
    IsTrimCall =>
        \A m \in 0..call.max_tokens :
            KeptTokens(contents, m) <= KeptTokens(contents, call.max_tokens)

\* a call that keeps fewer blocks, but more tokens, than a smaller budget would
C2_Witness ==
    /\ IsTrimCall
    /\ \E m \in 0..call.max_tokens :
          /\ trim_to_budget(contents, m, separator)[2].kept_prompts
                > result[2].kept_prompts
          /\ KeptTokens(contents, m) < KeptTokens(contents, call.max_tokens)

\* C3: the text trim_to_budget returns is the separator-join of a subsequence
\* of the input blocks, each whole and in input order.
C3_NeverSplitsABlock ==
    IsTrimCall =>
        \E S \in SUBSET DOMAIN contents :
            result[1] = Join(SubList(contents, S, 1), separator)

\* a call that kept two blocks or more and dropped a non-empty one
C3_Witness ==
    /\ IsTrimCall
    /\ result[2].kept_prompts >= 2
    /\ result[2].dropped_prompts >= 1
    /\ \E k \in DOMAIN contents : Len(contents[k]) > 0 /\ k < Len(contents)
    /\ Len(result[1]) < Len(Join(contents, separator))

\* C4: the kept blocks are exactly those that fit when the scan reaches them,
\* counting the blocks kept before them and no dropped block; the scan goes on
\* after a drop; the estimates of the kept blocks sum to max_tokens at most, and
\* kept_prompts + dropped_prompts is the number of blocks.
C4_GreedyWholeScan ==
    IsTrimCall =>
        \E S \in SUBSET DOMAIN contents :
            /\ \A i \in DOMAIN contents :
                  i \in S <=>
                      SumEstimates(contents, {j \in S : j < i})
                         + SumEstimates(contents, {i}) <= call.max_tokens
            /\ result[1] = Join(SubList(contents, S, 1), separator)
            /\ result[2].kept_prompts = Cardinality(S)
            /\ result[2].dropped_prompts = Len(contents) - Cardinality(S)
            /\ SumEstimates(contents, S) <= call.max_tokens
            /\ result[2].kept_prompts + result[2].dropped_prompts = Len(contents)

\* a call that dropped the second of three blocks and kept the smaller third
C4_Witness ==
    /\ IsTrimCall
    /\ Len(contents) = 3
    /\ Len(contents[3]) > 0
    /\ Len(contents[3]) < Len(contents[2])
    /\ result[1] = contents[1] \o separator \o contents[3]
    /\ result[2] = [kept_prompts |-> 2, dropped_prompts |-> 1]

-----------------------------------------------------------------------------
(* Paragraph deduplicator: properties (SpecDedup).                         *)

\* C5: deduplicate_content applied to its own output, as a single block,
\* returns that text again and an empty list of removed duplicates.
C5_DedupIdempotent ==
    (IsDedupCall /\ call.pass = 2) => result = <<contents[1], << >> >>

\* a second pass over an output of two paragraphs or more
C5_Witness ==
    /\ IsDedupCall
    /\ call.pass = 2
    /\ Len(SplitParagraphs(contents[1])) >= 2
    /\ result[1] # ""

\* C6: the output is the paragraphs of the whole input in the order of their
\* first occurrence (block order, then paragraph order), joined by a blank
\* line; a paragraph of an earlier block suppresses an identical one in any
\* later block.
C6_GlobalFirstSeenOrder ==
    IsDedupCall =>
        result[1] = Join(FirstOccurrences(AllParagraphs(contents)), "\n\n")

\* three blocks: the first and the third hold the same paragraph, the second
\* holds another one, and the output holds the shared paragraph once
C6_Witness ==
    /\ IsDedupCall
    /\ call.pass = 1
    /\ Len(contents) = 3
    /\ SplitParagraphs(contents[1]) = SplitParagraphs(contents[3])
    /\ Len(SplitParagraphs(contents[1])) = 1
    /\ Len(SplitParagraphs(contents[2])) = 1
    /\ SplitParagraphs(contents[2]) # SplitParagraphs(contents[1])
    /\ result[1] = SplitParagraphs(contents[1])[1] \o "\n\n"
                      \o SplitParagraphs(contents[2])[1]
    /\ Len(result[2]) = 1

\* what a deduplication worked on and gave: of a call of deduplicate_content,
\* or of a call of compose_prompts with deduplicate=True that did not trim
DedupRan ==
    \/ IsDedupCall
    \/ (Composed /\ call.deduplicate /\ "trimmed" \notin DOMAIN result.metadata)
DedupBlocks == IF IsDedupCall THEN contents ELSE ResolvedContents
DedupText == IF IsDedupCall THEN result[1] ELSE result.content
DedupRemoved == IF IsDedupCall THEN result[2] ELSE result.metadata.removed_duplicates

\* C7: no two paragraphs of the output have the same whitespace-normalized
\* text; each is the text of the first input paragraph with that normalized
\* text, as written there; every input paragraph has its normalized text in the
\* output; and the removed-duplicates list holds one preview (the first 50
\* characters and "...") for every later occurrence, in input order.
C7_UniqueByNormalizedText ==
    DedupRan =>
        LET paras == AllParagraphs(DedupBlocks)
            out == SplitParagraphs(DedupText)
            later == LaterOccurrences(paras)
        IN /\ \A i, j \in DOMAIN out :
                 i # j => NormalizeWhitespace(out[i]) # NormalizeWhitespace(out[j])
           /\ \A i \in DOMAIN out :
                 \E k \in DOMAIN paras :
                     /\ IsFirstOccurrence(paras, k)
                     /\ paras[k] = out[i]
           /\ \A k \in DOMAIN paras :
                 \E i \in DOMAIN out :
                     NormalizeWhitespace(out[i]) = NormalizeWhitespace(paras[k])
           /\ DedupRemoved = [k \in DOMAIN later |-> Take(later[k], PreviewLen) \o "..."]

\* compose_prompts met two paragraphs that differ in their whitespace only,
\* kept the first as written and recorded one preview, of the second
C7_Witness ==
    /\ Composed
    /\ call.deduplicate
    /\ LET paras == AllParagraphs(ResolvedContents)
       IN /\ Len(paras) = 2
          /\ paras[1] # paras[2]
          /\ NormalizeWhitespace(paras[1]) = NormalizeWhitespace(paras[2])
          /\ result.content = paras[1]
          /\ result.metadata.removed_duplicates = <<paras[2] \o "...">>

-----------------------------------------------------------------------------
(* Composer and registry: properties (Spec).  A max_tokens budget is read  *)
(* as the code reads it: an integer other than 0 (HasBudget).              *)

\* C1, as claimed: when compose_prompts is given a budget and composes, the
\* token count it returns is at most max_tokens.
C1_TokensWithinBudget ==
    (Composed /\ HasBudget(call.max_tokens)) => result.tokens <= call.max_tokens[1]

\* C8: when deduplicate=True and the deduplicated text is estimated above the
\* budget, the content returned is trim_to_budget of the resolved contents as
\* loaded, and removed_duplicates is still what the deduplication removed.
C8_TrimSupersedesDedup ==
    (Composed /\ call.deduplicate /\ HasBudget(call.max_tokens)
       /\ Len(deduplicate_content(ResolvedContents, call.separator)[1])
             >= 4 * (call.max_tokens[1] + 1))
    => LET trimmed == trim_to_budget(ResolvedContents, call.max_tokens[1],
                                     call.separator)
       IN /\ result.content = trimmed[1]
          /\ "trimmed" \in DOMAIN result.metadata
          /\ result.metadata.trimmed = trimmed[2]
          /\ result.metadata.removed_duplicates
                = deduplicate_content(ResolvedContents, call.separator)[2]

\* a trimmed composition in which the paragraph the deduplication removed
\* occurs twice, while removed_duplicates lists it
C8_Witness ==
    /\ Composed
    /\ call.deduplicate
    /\ "trimmed" \in DOMAIN result.metadata
    /\ Len(result.sources) = 2
    /\ result.metadata.removed_duplicates = <<"S...">>
    /\ result.content = result.sources[1].content \o call.separator
                           \o result.sources[2].content
    /\ \A k \in 1..2 : SplitParagraphs(result.sources[k].content)[2] = "S"

\* C9: every reference that does not resolve gives one entry of errors, every
\* one that resolves gives one source, both in the order of the references; a
\* composition is returned when a reference resolves, and otherwise the
\* top-level error with one entry of errors for each reference.
C9_FailsPerReference ==
    IsComposeCall =>
        LET refs == call.prompt_refs
            good == {k \in DOMAIN refs : Resolves(refs[k])}
            bad == DOMAIN refs \ good
            failed == SubList(refs, bad, 1)
            loaded == SubList(refs, good, 1)
        IN /\ Len(result.errors) = Cardinality(bad)
           /\ \A k \in DOMAIN failed : result.errors[k].ref = failed[k]
           /\ IF good = {}
              THEN /\ DOMAIN result = {"error", "errors"}
                   /\ Len(result.errors) = Len(refs)
              ELSE /\ Composed
                   /\ Len(result.sources) + Len(result.errors) = Len(refs)
                   /\ \A k \in DOMAIN loaded : result.sources[k].ref = loaded[k]
                   /\ result.metadata.sources
                         = [k \in DOMAIN loaded |->
                               [ref |-> loaded[k],
                                type |-> result.sources[k].type,
                                tokens |-> result.sources[k].tokens]]

\* a composition of the one reference that resolved, with an error for the
\* other, which came first
C9_Witness ==
    /\ Composed
    /\ Len(call.prompt_refs) = 2
    /\ Len(result.sources) = 1
    /\ Len(result.errors) = 1
    /\ result.errors[1].ref = call.prompt_refs[1]
    /\ result.sources[1].ref = call.prompt_refs[2]
    /\ result.content = result.sources[1].content

\* C10: the token count of every loaded prompt is floor(len(content) * 0.25)
\* of the content returned with it, whatever its kind; so is the estimate of
\* every text, and the estimate of the empty text is 0.
C10_TokensAreEstimateOfContent ==
    /\ estimate_tokens("") = 0
    /\ \A n \in 0..(4 * (MaxBudget + 1)) :
          IsFloorOfQuarter(estimate_tokens(Fill("x", n)), n)
    /\ Composed =>
          /\ \A k \in DOMAIN result.sources :
                /\ IsFloorOfQuarter(result.sources[k].tokens,
                                    Len(result.sources[k].content))
                /\ result.metadata.sources[k].tokens = result.sources[k].tokens
          /\ IsFloorOfQuarter(result.tokens, Len(result.content))

\* a composition of a user-saved prompt and a file, each with its tokens
C10_Witness ==
    /\ Composed
    /\ Len(result.sources) = 2
    /\ result.sources[1].type = "custom"
    /\ result.sources[1].tokens = 4
    /\ result.sources[2].type = "file"
    /\ result.sources[2].tokens = 1

\* the text compose_prompts composes before it looks at the budget
ComposedText ==
    IF call.deduplicate
    THEN deduplicate_content(ResolvedContents, call.separator)[1]
    ELSE Join(ResolvedContents, call.separator)

\* C30: compose_prompts treats max_tokens = 0 as it treats no max_tokens: it
\* trims nothing, metadata has no 'trimmed' entry, and the content returned is
\* the whole composed text with its token count, whatever that is; for another
\* max_tokens, metadata has a 'trimmed' entry exactly when the estimate of the
\* text composed before trimming is above max_tokens.
C30_ZeroBudgetIsNoBudget ==
    Composed =>
        IF call.max_tokens = None \/ call.max_tokens = Some(0)
        THEN /\ "trimmed" \notin DOMAIN result.metadata
             /\ result.content = ComposedText
             /\ result.tokens = estimate_tokens(ComposedText)
        ELSE ("trimmed" \in DOMAIN result.metadata)
                <=> (estimate_tokens(ComposedText) > call.max_tokens[1])

\* a composition under max_tokens = 0 that returned all of a text of more
\* than MaxBudget tokens, untrimmed
C30_Witness ==
    /\ Composed
    /\ call.max_tokens = Some(0)
    /\ result.tokens > MaxBudget
    /\ result.content = ComposedText
    /\ "trimmed" \notin DOMAIN result.metadata

-----------------------------------------------------------------------------
(* Context estimator: properties (Spec).                                   *)

\* C11: estimate_context called with the empty string as content, and no
\* prompt_refs, returns a result with tokens = 0 and no error.
C11_EmptyContentIsZeroTokens ==
    (/\ call.op = "estimate_context"
     /\ call.content = Some("")
     /\ call.prompt_refs = None)
    => (/\ "error" \notin DOMAIN result
        /\ "tokens" \in DOMAIN result
        /\ result.tokens = 0)

-----------------------------------------------------------------------------
(* Prompt registry: properties (SpecRegistry).                             *)

IsLoadCall == call.op = "load_prompts"

\* C12: in load_prompts every reference custom:<name> gives the user-saved
\* prompt of that name (type custom) when one is saved and can be read, also
\* when a builtin prompt has that name, and gives an entry of errors, and
\* nothing loaded, when no user-saved prompt has that name.
C12_CustomPrefixLoadsUserSaved ==
    IsLoadCall =>
        \A k \in DOMAIN call.prompt_refs :
            LET ref == call.prompt_refs[k]
                name == Drop(ref, 7)
            IN StartsWith(ref, "custom:") =>
                 /\ CustomReadable(name) =>
                       \E j \in DOMAIN result.loaded :
                           /\ result.loaded[j].ref = ref
                           /\ result.loaded[j].type = "custom"
                           /\ result.loaded[j].name = name
                 /\ name \notin DOMAIN custom_prompts =>
                       /\ \E j \in DOMAIN result.errors :
                              result.errors[j].ref = ref
                       /\ \A j \in DOMAIN result.loaded :
                              result.loaded[j].ref # ref

\* a call of save_prompt, with a content or a file_path and not both, under a
\* name that a saved prompt has
IsDuplicateSave ==
    /\ call = NoCall
    /\ call'.op = "save_prompt"
    /\ Truthy(call'.content) # Truthy(call'.file_path)
    /\ call'.name \in DOMAIN custom_prompts

\* C13, as claimed: a save under a name that is already saved returns the
\* 'already exists' error and leaves the stored entry as it was, and a later
\* get_prompt of that name returns the user-saved prompt with the content of
\* the first save.
C13_DuplicateSaveRejected ==
    [][IsDuplicateSave =>
         LET name == call'.name
             row == custom_prompts[name]
             got == get_prompt(State', name).ret
         IN /\ result' = [error |-> "Prompt with name '" \o name
                                       \o "' already exists"]
            /\ custom_prompts' = custom_prompts
            /\ Truthy(row.content) =>
                  /\ "content" \in DOMAIN got
                  /\ got.type = "custom"
                  /\ got.content = row.content[1]]_vars

\* C13, amended: a save under a name that is already saved returns the
\* 'already exists' error and leaves the stored entry as it was, so a later
\* get_prompt of that name returns what it returned before the save: the
\* user-saved prompt with the content of the first save, unless a builtin
\* prompt has that name, and then the builtin prompt.
C13_DuplicateSaveKeepsEntry ==
    [][IsDuplicateSave =>
         LET name == call'.name
             row == custom_prompts[name]
             got == get_prompt(State', name).ret
         IN /\ result' = [error |-> "Prompt with name '" \o name
                                       \o "' already exists"]
            /\ custom_prompts' = custom_prompts
            /\ got = get_prompt(State, name).ret
            /\ Truthy(row.content) =>
                  /\ "content" \in DOMAIN got
                  /\ IF DefaultReadable(name)
                     THEN got.type = "default"
                     ELSE /\ got.type = "custom"
                          /\ got.content = row.content[1]]_vars

\* a save of another content under a saved name that no builtin prompt has was
\* rejected, and the content first saved is still stored
C13_Witness ==
    /\ call.op = "save_prompt"
    /\ "error" \in DOMAIN result
    /\ call.name \in DOMAIN custom_prompts
    /\ ~DefaultReadable(call.name)
    /\ Truthy(call.content)
    /\ Truthy(custom_prompts[call.name].content)
    /\ custom_prompts[call.name].content # call.content
    /\ result.error = "Prompt with name '" \o call.name \o "' already exists"

-----------------------------------------------------------------------------
(* Embeddings manager (tools/embeddings_manager.py).  A number of an       *)
(* embedding, and a similarity, is the float of the code, an IEEE 754      *)
(* double, as the record                                                   *)
(*   [sign, mantissa, exponent]                                            *)
(* that is sign * mantissa * 2^exponent, with sign of -1, 0, 1 and         *)
(* 2^52 <= mantissa < 2^53 (0.0 has sign 0 and no mantissa); numbers above *)
(* the range of TLC's integers are sequences of digits to the base 1000,   *)
(* lowest first.  A whole number of a list is the float of its value.      *)
(* cosine_similarity makes the operations of the code, each rounded to the *)
(* nearest float, ties to even: the products and the sums of np.dot, the   *)
(* square roots of the norms, their product and the quotient.  np.dot goes *)
(* through the places in their order, adding each product to the sum so    *)
(* far, which starts at 0.0, as the loop numpy has of its own does; a BLAS *)
(* the installation links numpy with can add in another order.  No number  *)
(* here leaves the range of the normal floats, and no list holds -0.0, so  *)
(* that no sum is -0.0.  A decimal number of the code, as min_similarity,  *)
(* is in millionths: 300000 is 0.3, the float nearest to 3/10.  A row of   *)
(* prompt_embeddings keeps prompt_id, prompt_type, embedding, content_hash *)
(* and model_name; embedding_json is json.dumps of a list of numbers,      *)
(* which json.loads gives back unchanged, so the row keeps the list.       *)

\* EMBEDDING_MODEL
EMBEDDING_MODEL == "all-MiniLM-L6-v2"

\* np.dot raises ValueError for vectors of different lengths
ShapesAligned(vec1, vec2) == Len(vec1) = Len(vec2)

\* the digits of n >= 0
RECURSIVE Digits(_)
Digits(n) == IF n = 0 THEN << >> ELSE <<n % 1000>> \o Digits(n \div 1000)

\* the number the digits are of, below 2^31
RECURSIVE WholeOf(_)
WholeOf(digits) ==
    IF digits = << >> THEN 0 ELSE digits[1] + 1000 * WholeOf(Tail(digits))

\* the digits of digits * k + carry, for 0 <= k <= 2147483
RECURSIVE DigitsTimes(_, _, _)
DigitsTimes(digits, k, carry) ==
    IF digits = << >> THEN Digits(carry)
    ELSE LET p == digits[1] * k + carry
         IN <<p % 1000>> \o DigitsTimes(Tail(digits), k, p \div 1000)

\* a <= b, of numbers given by their digits
RECURSIVE DigitsLeq(_, _)
DigitsLeq(a, b) ==
    IF Len(a) # Len(b) THEN Len(a) < Len(b)
    ELSE IF a = << >> THEN TRUE
    ELSE IF a[Len(a)] # b[Len(b)] THEN a[Len(a)] < b[Len(b)]
    ELSE DigitsLeq(SubSeq(a, 1, Len(a) - 1), SubSeq(b, 1, Len(b) - 1))

\* the digits without the zeros that lead
RECURSIVE Leading(_)
Leading(digits) ==
    IF digits # << >> /\ digits[Len(digits)] = 0
    THEN Leading(SubSeq(digits, 1, Len(digits) - 1)) ELSE digits

\* the digits of a + b + carry
RECURSIVE DigitsPlus(_, _, _)
DigitsPlus(a, b, carry) ==
    IF a = << >> /\ b = << >> THEN Digits(carry)
    ELSE LET sum == (IF a = << >> THEN 0 ELSE a[1])
                    + (IF b = << >> THEN 0 ELSE b[1]) + carry
         IN <<sum % 1000>> \o DigitsPlus(IF a = << >> THEN a ELSE Tail(a),
                                         IF b = << >> THEN b ELSE Tail(b),
                                         sum \div 1000)

\* the digits of a - b - borrow, for a >= b + borrow, as many as a has
RECURSIVE DigitsBorrow(_, _, _)
DigitsBorrow(a, b, borrow) ==
    IF a = << >> THEN << >>
    ELSE LET difference == a[1] - (IF b = << >> THEN 0 ELSE b[1]) - borrow
         IN <<IF difference < 0 THEN difference + 1000 ELSE difference>>
            \o DigitsBorrow(Tail(a), IF b = << >> THEN b ELSE Tail(b),
                            IF difference < 0 THEN 1 ELSE 0)

\* the digits of a - b, for a >= b
DigitsMinus(a, b) == Leading(DigitsBorrow(a, b, 0))

\* the digits of a * b
RECURSIVE DigitsProduct(_, _)
DigitsProduct(a, b) ==
    IF a = << >> \/ b = << >> THEN << >>
    ELSE DigitsPlus(DigitsTimes(b, a[1], 0),
                    IF Len(a) = 1 THEN << >> ELSE <<0>> \o DigitsProduct(Tail(a), b),
                    0)

\* the digits of digits * 2^bits
RECURSIVE TimesTwoTo(_, _)
TimesTwoTo(digits, bits) ==
    IF bits <= 20 THEN DigitsTimes(digits, 2^bits, 0)
    ELSE TimesTwoTo(DigitsTimes(digits, 1048576, 0), bits - 20)

\* the division by d has gone through the digits above digit, which left
\* upper: the quotient gets its next digit, with the zeros that lead
OverStep(upper, digit, d) ==
    [quotient |-> <<(upper.rest * 1000 + digit) \div d>> \o upper.quotient,
     rest |-> (upper.rest * 1000 + digit) % d]

\* the digits of digits \div d, with the zeros that lead, and the rest
\* digits % d, for 0 < d <= 2^20
RECURSIVE DigitsOver(_, _)
DigitsOver(digits, d) ==
    IF digits = << >> THEN [quotient |-> << >>, rest |-> 0]
    ELSE OverStep(DigitsOver(Tail(digits), d), digits[1], d)

\* what a division leaves of a number of which something was dropped
\* already, or nothing: the quotient, and whether something is dropped now
Cut(over, dropped) ==
    [digits |-> Leading(over.quotient), dropped |-> dropped \/ over.rest # 0]

\* halving.digits \div 2^bits, and whether the bits dropped, or what was
\* dropped of the number before, are more than nothing
RECURSIVE Halved(_, _)
Halved(halving, bits) ==
    IF bits = 0 THEN halving
    ELSE IF bits > 20
    THEN Halved(Cut(DigitsOver(halving.digits, 1048576), halving.dropped), bits - 20)
    ELSE Cut(DigitsOver(halving.digits, 2^bits), halving.dropped)

\* whole, or one more: whole + rest / 2 and, when dropped, something more is
\* rounded to the nearest whole number, to the even one of two as near
RoundedUp(whole, rest, dropped) ==
    IF rest = 1 /\ (dropped \/ (whole # << >> /\ whole[1] % 2 = 1))
    THEN DigitsPlus(whole, << >>, 1) ELSE whole

\* the whole number nearest to quotient + rest / 2 of over and, when
\* dropped, something more
RintHalved(over, dropped) == RoundedUp(Leading(over.quotient), over.rest, dropped)

\* the whole number nearest to half the number halved is of
RintOf(halved) == RintHalved(DigitsOver(halved.digits, 2), halved.dropped)

\* the whole number nearest to (digits and, when dropped, something more
\* below 1) / 2^bits, the even one of two as near, for bits > 0
DigitsRint(digits, dropped, bits) ==
    RintOf(Halved([digits |-> digits, dropped |-> dropped], bits - 1))

\* the number of bits of n >= 0
RECURSIVE BitLength(_)
BitLength(n) == IF n = 0 THEN 0 ELSE 1 + BitLength(n \div 2)

\* the number of bits of the number of the digits
RECURSIVE DigitsBits(_)
DigitsBits(digits) ==
    IF Len(digits) <= 3 THEN BitLength(WholeOf(digits))
    ELSE 20 + DigitsBits(Leading(DigitsOver(digits, 1048576).quotient))

\* the digits of 2^52 and of 2^53: a mantissa is of the first at least and
\* below the second
TwoTo52 == TimesTwoTo(<<1>>, 52)

TwoTo53 == TimesTwoTo(<<1>>, 53)

\* the absolute value
Abs(n) == IF n < 0 THEN 0 - n ELSE n

\* the sign of n
Sign(n) == IF n > 0 THEN 1 ELSE IF n < 0 THEN 0 - 1 ELSE 0

\* the float 0.0
FloatZero == [sign |-> 0, mantissa |-> << >>, exponent |-> 0]

\* numerator and divisor with divisor <= numerator < 2 * divisor, and the
\* exponent: numerator / divisor * 2^exponent stays what it is
RECURSIVE Scaled(_, _, _)
Scaled(numerator, divisor, exponent) ==
    IF ~DigitsLeq(divisor, numerator)
    THEN (IF ~DigitsLeq(divisor, DigitsTimes(numerator, 1048576, 0))
          THEN Scaled(DigitsTimes(numerator, 1048576, 0), divisor, exponent - 20)
          ELSE IF ~DigitsLeq(divisor, DigitsTimes(numerator, 32, 0))
          THEN Scaled(DigitsTimes(numerator, 32, 0), divisor, exponent - 5)
          ELSE Scaled(DigitsTimes(numerator, 2, 0), divisor, exponent - 1))
    ELSE IF DigitsLeq(DigitsTimes(divisor, 2, 0), numerator)
    THEN (IF DigitsLeq(DigitsTimes(divisor, 1048576, 0), numerator)
          THEN Scaled(numerator, DigitsTimes(divisor, 1048576, 0), exponent + 20)
          ELSE IF DigitsLeq(DigitsTimes(divisor, 32, 0), numerator)
          THEN Scaled(numerator, DigitsTimes(divisor, 32, 0), exponent + 5)
          ELSE Scaled(numerator, DigitsTimes(divisor, 2, 0), exponent + 1))
    ELSE [numerator |-> numerator, divisor |-> divisor, exponent |-> exponent]

\* the division goes on by bits bits: quotient gets the bits of rest by
\* divisor behind it, and rest becomes twice what the division leaves, for
\* rest < 2 * divisor; when nothing is left, the bits to come are 0
RECURSIVE QuotientBits(_, _, _)
QuotientBits(division, divisor, bits) ==
    IF division.rest = << >>
    THEN [rest |-> << >>, quotient |-> TimesTwoTo(division.quotient, bits)]
    ELSE IF bits = 0 THEN division
    ELSE IF bits > 1
    THEN LET first == QuotientBits(division, divisor, bits \div 2)
         IN QuotientBits(first, divisor, bits - bits \div 2)
    ELSE IF DigitsLeq(divisor, division.rest)
    THEN [rest |-> DigitsTimes(DigitsMinus(division.rest, divisor), 2, 0),
          quotient |-> DigitsTimes(division.quotient, 2, 1)]
    ELSE [rest |-> DigitsTimes(division.rest, 2, 0),
          quotient |-> DigitsTimes(division.quotient, 2, 0)]

\* the float of the mantissa, one more when up: 2^53 is 2^52 with the next
\* exponent
Rounded(sign, mantissa, up, exponent) ==
    LET raised == IF up THEN DigitsPlus(mantissa, << >>, 1) ELSE mantissa
    IN IF raised = TwoTo53
       THEN [sign |-> sign, mantissa |-> TwoTo52, exponent |-> exponent + 1]
       ELSE [sign |-> sign, mantissa |-> raised, exponent |-> exponent]

\* the float nearest to sign * numerator / divisor * 2^exponent, the one of
\* the even mantissa of two that are as near, for numerator and divisor
\* above 0, given by their digits
FloatNearest(sign, numerator, divisor, exponent) ==
    LET scaled == Scaled(numerator, divisor, exponent)
        divided == QuotientBits([rest |-> scaled.numerator, quotient |-> << >>],
                                scaled.divisor, 53)
        up == IF divided.rest = scaled.divisor THEN divided.quotient[1] % 2 = 1
              ELSE ~DigitsLeq(divided.rest, scaled.divisor)
    IN Rounded(sign, divided.quotient, up, scaled.exponent - 52)

\* the float nearest to sign * digits * 2^exponent, where the digits have
\* bits bits more than the 53 of a mantissa; dropped tells that the number
\* is above that of the digits, by less than 1
FloatOfBits(sign, digits, dropped, exponent, bits) ==
    IF bits <= 0
    THEN [sign |-> sign, mantissa |-> TimesTwoTo(digits, 0 - bits),
          exponent |-> exponent + bits]
    ELSE Rounded(sign, DigitsRint(digits, dropped, bits), FALSE, exponent + bits)

\* the float nearest to sign * digits * 2^exponent, the one of the even
\* mantissa of two that are as near, for digits above 0
FloatOfDigits(sign, digits, exponent) ==
    FloatOfBits(sign, digits, FALSE, exponent, DigitsBits(digits) - 53)

\* the float nearest to sign * (over.quotient and over.rest of the divisor)
\* * 2^exponent, of a quotient of 54 bits or more
FloatOfQuotient(sign, over, exponent) ==
    FloatOfBits(sign, Leading(over.quotient), over.rest # 0, exponent,
                DigitsBits(Leading(over.quotient)) - 53)

\* the float nearest to numerator / divisor, of whole numbers,
\* 0 < divisor <= 2^20: float(n), the quotient of two floats that are whole
\* numbers, and the float a decimal number is read as
FloatOf(numerator, divisor) ==
    IF numerator = 0 THEN FloatZero
    ELSE IF divisor = 1
    THEN FloatOfDigits(Sign(numerator), Digits(Abs(numerator)), 0)
    ELSE FloatOfQuotient(Sign(numerator),
                         DigitsOver(TimesTwoTo(Digits(Abs(numerator)), 80), divisor),
                         0 - 80)

\* the float a decimal number given in millionths is
Millionths(millionths) == FloatOf(millionths, 1000000)

\* a * b, of floats
FloatTimes(a, b) ==
    IF a.sign = 0 \/ b.sign = 0 THEN FloatZero
    ELSE FloatOfDigits(a.sign * b.sign, DigitsProduct(a.mantissa, b.mantissa),
                       a.exponent + b.exponent)

\* sign1 * digits1 + sign2 * digits2, by its sign and its digits
SignedSum(sign1, digits1, sign2, digits2) ==
    IF sign1 = sign2
    THEN [sign |-> sign1, digits |-> DigitsPlus(digits1, digits2, 0)]
    ELSE IF DigitsLeq(digits2, digits1)
    THEN [sign |-> IF digits1 = digits2 THEN 0 ELSE sign1,
          digits |-> DigitsMinus(digits1, digits2)]
    ELSE [sign |-> sign2, digits |-> DigitsMinus(digits2, digits1)]

\* the float nearest to sum * 2^exponent
FloatOfSum(sum, exponent) ==
    IF sum.sign = 0 THEN FloatZero
    ELSE FloatOfDigits(sum.sign, sum.digits, exponent)

\* a + b, of floats
FloatPlus(a, b) ==
    IF a.sign = 0 THEN b
    ELSE IF b.sign = 0 THEN a
    ELSE FloatOfSum(
             SignedSum(a.sign,
                       TimesTwoTo(a.mantissa, a.exponent - Min(a.exponent, b.exponent)),
                       b.sign,
                       TimesTwoTo(b.mantissa, b.exponent - Min(a.exponent, b.exponent))),
             Min(a.exponent, b.exponent))

\* a / b, of floats, b not 0.0
FloatOver(a, b) ==
    IF a.sign = 0 THEN FloatZero
    ELSE FloatNearest(a.sign * b.sign, a.mantissa, b.mantissa,
                      a.exponent - b.exponent)

\* the square root goes on by the count pairs of bits that chunk ends with,
\* the first of them first: root^2 + rest is the number so far, which gets
\* the pair behind it
RECURSIVE RootPairs(_, _, _)
RootPairs(rooted, chunk, count) ==
    IF count = 0 THEN rooted
    ELSE LET four == rooted.rest * 4 + ((chunk \div 4^(count - 1)) % 4)
             trial == rooted.root * 4 + 1
         IN IF trial <= four
            THEN RootPairs([root |-> rooted.root * 2 + 1, rest |-> four - trial],
                           chunk, count - 1)
            ELSE RootPairs([root |-> rooted.root * 2, rest |-> four],
                           chunk, count - 1)

\* the square root goes on by bits bits: root^2 + rest is the number so far,
\* which gets two bits 0 behind it for each; when nothing is left, the bits
\* to come are 0
RECURSIVE RootBits(_, _)
RootBits(rooted, bits) ==
    IF rooted.rest = << >>
    THEN [root |-> TimesTwoTo(rooted.root, bits), rest |-> << >>]
    ELSE IF bits = 0 THEN rooted
    ELSE IF bits > 1
    THEN LET first == RootBits(rooted, bits \div 2)
         IN RootBits(first, bits - bits \div 2)
    ELSE LET four == DigitsTimes(rooted.rest, 4, 0)
             trial == DigitsTimes(rooted.root, 4, 1)
         IN IF DigitsLeq(trial, four)
            THEN [root |-> DigitsTimes(rooted.root, 2, 1),
                  rest |-> DigitsMinus(four, trial)]
            ELSE [root |-> DigitsTimes(rooted.root, 2, 0), rest |-> four]

\* the largest root with root^2 <= the number of the digits, below 2^54,
\* and the rest: the number is cut in three chunks of 18 bits
RootOfDigits(digits) ==
    LET low == DigitsOver(digits, 262144)
        middle == DigitsOver(low.quotient, 262144)
        high == DigitsOver(middle.quotient, 262144)
        first == RootPairs([root |-> 0, rest |-> 0], high.rest, 9)
        second == RootPairs(first, middle.rest, 9)
        third == RootPairs(second, low.rest, 9)
    IN [root |-> Digits(third.root), rest |-> Digits(third.rest)]

\* the float nearest to the square root of root^2 + rest, times 2^exponent:
\* the square root is above root + 1/2 when the rest is above root
FloatOfRoot(rooted, exponent) ==
    Rounded(1, rooted.root, ~DigitsLeq(rooted.rest, rooted.root), exponent)

\* np.sqrt(a), of a float a >= 0.0: the float nearest to the square root.
\* The mantissa, twice the mantissa when the exponent is odd, has 53 or 54
\* bits, and its root gets 26 bits more
FloatRoot(a) ==
    IF a.sign = 0 THEN FloatZero
    ELSE FloatOfRoot(RootBits(RootOfDigits(IF (a.exponent % 2) = 0 THEN a.mantissa
                                           ELSE DigitsTimes(a.mantissa, 2, 0)),
                              26),
                     (a.exponent - (a.exponent % 2)) \div 2 - 26)

\* a <= b, of floats of one sign that are not 0.0, by their size
SizeLeq(a, b) ==
    IF a.exponent # b.exponent THEN a.exponent < b.exponent
    ELSE DigitsLeq(a.mantissa, b.mantissa)

\* a <= b, of floats
FloatLeq(a, b) ==
    IF a.sign # b.sign THEN a.sign < b.sign
    ELSE IF a.sign = 0 THEN TRUE
    ELSE IF a.sign = 1 THEN SizeLeq(a, b) ELSE SizeLeq(b, a)

\* a < b, of floats
FloatLess(a, b) == ~FloatLeq(b, a)

\* the list of the floats of whole numbers
AsFloats(numbers) == [i \in DOMAIN numbers |-> FloatOf(numbers[i], 1)]

\* np.dot(vec1, vec2) goes on from sum over the places low..high: the
\* product at a place is rounded, and so is the sum with it.  The sum of
\* the first half is computed before the second half is gone through
RECURSIVE DotBetween(_, _, _, _, _)
DotBetween(sum, vec1, vec2, low, high) ==
    IF low > high THEN sum
    ELSE IF low = high THEN FloatPlus(sum, FloatTimes(vec1[low], vec2[low]))
    ELSE LET first == DotBetween(sum, vec1, vec2, low, (low + high) \div 2)
         IN IF first.sign = 0
            THEN DotBetween(FloatZero, vec1, vec2, (low + high) \div 2 + 1, high)
            ELSE DotBetween(first, vec1, vec2, (low + high) \div 2 + 1, high)

\* np.dot(vec1, vec2), of vectors of one length
Dot(vec1, vec2) == DotBetween(FloatZero, vec1, vec2, 1, Len(vec1))

\* np.linalg.norm(vec): sqrt(vec.dot(vec))
norm(vec) == FloatRoot(Dot(vec, vec))

\* cosine_similarity: the quotient of dot_product and the product of the
\* norms, 0.0 when a norm is 0
CosineOf(dot_product, norm1, norm2) ==
    IF norm1 = FloatZero \/ norm2 = FloatZero THEN FloatZero
    ELSE FloatOver(dot_product, FloatTimes(norm1, norm2))

\* cosine_similarity(vec1, vec2) -> float, as it is computed
Cosine(vec1, vec2) == CosineOf(Dot(vec1, vec2), norm(vec1), norm(vec2))

\* EMBEDDING_DIM
EMBEDDING_DIM == 384

\* hashlib.sha256(text.encode()).hexdigest(), of the texts used
sha256_hexdigest(text) ==
    CASE text = "plan the work" ->
           "2aefd47f9b215903adbbd512cbe68cc7861d56a5b40c566181a4eaeb59f1cb56"
      [] text = "review code" ->
           "c950ebd195d2bd0a093e1afacfa416710d1f06a9c72ea90b2a9cf51bf8c6e750"
      [] text = "debug" ->
           "0b8e9e995d8d77f1e4770f0f79665aee6f3f70247b3735422daba73df4c3096f"
      [] text = "Guiding principle" ->
           "8991b107b6ff9dc9f0b5418b8e3957f4087c2e6cc65b9e19cf680c73eca3bc80"
      [] text = "Release workflow" ->
           "337dc08a92ef4d9793456d3c2dc61ca30d0e171bb0145610485e8e8b556d84b8"

HexDigits == "0123456789abcdef"

\* int(c, 16) of one hexadecimal digit
HexValue(c) == (CHOOSE k \in 1..16 : Char(HexDigits, k) = c) - 1

\* int(pair, 16) of two hexadecimal digits
HexPair(pair) == 16 * HexValue(Char(pair, 1)) + HexValue(Char(pair, 2))

\* int(pair, 16) / 255.0 - 0.5
PairValue(pair) == FloatPlus(FloatOf(HexPair(pair), 255), FloatOf(0 - 1, 2))

\* _fallback_embedding: the loop over the pairs of text_hash
PairValues(text_hash) ==
    [k \in 1..(Len(text_hash) \div 2) |->
        PairValue(SubSeq(text_hash, 2 * k - 1, 2 * k))]

\* _fallback_embedding: the embedding padded, or truncated, to EMBEDDING_DIM
Padded(embedding) ==
    IF Len(embedding) < EMBEDDING_DIM
    THEN embedding \o [k \in 1..(EMBEDDING_DIM - Len(embedding)) |-> FloatZero]
    ELSE Take(embedding, EMBEDDING_DIM)

\* _fallback_embedding(text) -> List[float]
fallback_embedding(text) == Padded(PairValues(sha256_hexdigest(text)))

\* the import of sentence_transformers failed
HAS_SENTENCE_TRANSFORMERS == FALSE

\* _init_model(): self.model.  loaded is the model SentenceTransformer gives,
\* None when it raises; a model is the function its encode computes, over
\* the texts it does not raise at
init_model(loaded) == IF HAS_SENTENCE_TRANSFORMERS THEN loaded ELSE None

\* the model of the embeddings manager
ManagerModel == init_model(None)

\* the texts sha256_hexdigest has the digest of
HashedTexts ==
    {"plan the work", "review code", "debug", "Guiding principle", "Release workflow"}

\* _fallback_embedding(text) of each of these texts, as <<text, embedding>>,
\* computed once
FallbackEmbeddings == {<<text, fallback_embedding(text)>> : text \in HashedTexts}

\* _fallback_embedding(text), read off FallbackEmbeddings
FallbackOf(text) == (CHOOSE known \in FallbackEmbeddings : known[1] = text)[2]

\* generate_embedding(text) -> Optional[List[float]]
generate_embedding(model, text) ==
    IF model # None /\ text \in DOMAIN model[1] THEN model[1][text]
    ELSE FallbackOf(text)

\* the vectors stored.  To <<1, 1, 0, 0>>, <<3, 0, 5, 4>> is as similar as
\* 0.29999999999999993, which is below the min_similarity 0.3 (the product of
\* the norms is 10.000000000000002), <<1, 1, 0, 0>> itself as
\* 0.9999999999999998, below 1.0, and <<3, 3, 0, 0>> as 1.0; to
\* <<1, 0, 0, 0>>, <<3, 0, 5, 4>> is as similar as 0.4242640687119285,
\* <<1, 1, 0, 0>> as 0.7071067811865475 and <<3, 3, 0, 0>> as
\* 0.7071067811865476.  <<0, 0, 0, 0>> has the norm 0, and the last is of
\* another length than the vectors searched for
Vectors ==
    {AsFloats(numbers) :
        numbers \in {<<3, 0, 5, 4>>, <<1, 1, 0, 0>>, <<3, 3, 0, 0>>, <<0, 0, 0, 0>>,
                     <<1, 0, 0>>}}

\* the vectors searched for
Queries == {AsFloats(numbers) : numbers \in {<<1, 0, 0, 0>>, <<1, 1, 0, 0>>}}

\* the tasks described.  The embedding of "Release workflow" is as similar
\* to theirs as 0.228, 0.316 and 0.448
TaskDescriptions == {"plan the work", "review code", "debug"}

\* the vectors stored: the embedding of a task, that of a content, and one
\* that is shorter than the embedding of a query
SmartVectors ==
    {generate_embedding(ManagerModel, text) :
        text \in {"plan the work", "Release workflow"}}
    \cup {AsFloats(<<1, 0>>)}

\* the vectors searched for, and the vectors stored
SearchedVectors ==
    Queries \cup {generate_embedding(ManagerModel, task_description) :
                     task_description \in TaskDescriptions}

StoredVectors == Vectors \cup SmartVectors

\* Cosine(vec1, vec2) of each vector searched for and each vector stored that
\* has its length, as <<vec1, vec2, similarity>>, computed once
KnownSimilarities ==
    {<<pair[1], pair[2], Cosine(pair[1], pair[2])>> :
        pair \in {p \in SearchedVectors \X StoredVectors : ShapesAligned(p[1], p[2])}}

\* the similarity found for vec1 and vec2, or, when none is, computed
SimilarityOf(found, vec1, vec2) ==
    IF found = {} THEN Cosine(vec1, vec2) ELSE (CHOOSE known \in found : TRUE)[3]

\* cosine_similarity(vec1, vec2) -> float: Cosine(vec1, vec2), read off
\* KnownSimilarities where it is computed there
cosine_similarity(vec1, vec2) ==
    SimilarityOf({known \in KnownSimilarities : known[1] = vec1 /\ known[2] = vec2},
                 vec1, vec2)

\* a store_embedding that keys the rows by prompt_id and prompt_type
store_embedding_by_pair(rows, prompt_id, prompt_type, embedding, content_hash) ==
    SelectSeq(rows, LAMBDA row : row.prompt_id # prompt_id
                                 \/ row.prompt_type # prompt_type)
    \o <<[prompt_id |-> prompt_id, prompt_type |-> prompt_type,
          embedding |-> embedding, content_hash |-> content_hash,
          model_name |-> EMBEDDING_MODEL]>>

\* store_embedding(prompt_id, prompt_type, embedding, content_hash): INSERT OR
\* REPLACE, and prompt_id is the PRIMARY KEY: a row with that prompt_id is
\* deleted, and the new row gets the next rowid
store_embedding(rows, prompt_id, prompt_type, embedding, content_hash) ==
    SelectSeq(rows, LAMBDA row : row.prompt_id # prompt_id)
    \o <<[prompt_id |-> prompt_id, prompt_type |-> prompt_type,
          embedding |-> embedding, content_hash |-> content_hash,
          model_name |-> EMBEDDING_MODEL]>>

\* get_embedding(prompt_id, prompt_type) -> Optional[List[float]]
get_embedding(rows, prompt_id, prompt_type) ==
    LET found == SelectSeq(rows, LAMBDA row : /\ row.prompt_id = prompt_id
                                              /\ row.prompt_type = prompt_type)
    IN IF found = << >> THEN None ELSE Some(found[1].embedding)

\* find_similar: the result of a row as similar as similarity, when that is
\* min_similarity at least
SimilarRow(row, similarity, min_similarity) ==
    IF FloatLeq(min_similarity, similarity)
    THEN <<[prompt_id |-> row.prompt_id, prompt_type |-> row.prompt_type,
            similarity |-> similarity]>>
    ELSE << >>

\* find_similar: the rows whose similarity is min_similarity at least, in the
\* order of the rows
RECURSIVE SimilarRows(_, _, _)
SimilarRows(rows, query_embedding, min_similarity) ==
    IF rows = << >> THEN << >>
    ELSE SimilarRow(rows[1], cosine_similarity(query_embedding, rows[1].embedding),
                    min_similarity)
         \o SimilarRows(Tail(rows), query_embedding, min_similarity)

\* results.sort(key=lambda x: x['similarity'], reverse=True) puts x, the next
\* of the list, behind the results that are as similar: the sort is stable
RECURSIVE InsertBySimilarity(_, _)
InsertBySimilarity(sorted, x) ==
    IF sorted = << >> THEN <<x>>
    ELSE IF FloatLess(sorted[1].similarity, x.similarity) THEN <<x>> \o sorted
    ELSE <<sorted[1]>> \o InsertBySimilarity(Tail(sorted), x)

\* a sort that puts the least similar first
RECURSIVE SortBySimilarity_ascending(_, _)
SortBySimilarity_ascending(results, sorted) ==
    IF results = << >> THEN sorted
    ELSE LET x == results[1]
             before == SelectSeq(sorted, LAMBDA y :
                           FloatLeq(y.similarity, x.similarity))
             after == SelectSeq(sorted, LAMBDA y :
                          FloatLess(x.similarity, y.similarity))
         IN SortBySimilarity_ascending(Tail(results), before \o <<x>> \o after)

RECURSIVE SortBySimilarity(_, _)
SortBySimilarity(results, sorted) ==
    IF results = << >> THEN sorted
    ELSE SortBySimilarity(Tail(results), InsertBySimilarity(sorted, results[1]))

\* find_similar after _ensure_indexed: SELECT, filter, sort, results[:top_k]
SelectSimilarRows(rows, query_embedding, top_k, min_similarity) ==
    SliceTo(SortBySimilarity(SimilarRows(rows, query_embedding,
                                         Millionths(min_similarity)),
                             << >>),
            top_k)

\* a _do_index that adds a row to the table before it raises, with INSERT
\* and not with INSERT OR REPLACE
do_index_appending(rows) ==
    [raised |-> "ImportError",
     rows |-> Append(rows, [prompt_id |-> "ask_plan_act", prompt_type |-> "default",
                            embedding |-> AsFloats(<<1, 0, 0, 0>>),
                            content_hash |-> "hash",
                            model_name |-> EMBEDDING_MODEL])]

\* _do_index(): its first statement, from prompt_registry import
\* default_prompts, raises ImportError, since default_prompts is a local
\* variable of get_default_prompt and no name of the module prompt_registry;
\* the statement is in no try block, and nothing is stored
do_index(rows) == [raised |-> "ImportError", rows |-> rows]

-----------------------------------------------------------------------------
(* SpecEmbed: one client of the embeddings manager, which stores and gets  *)
(* embeddings and searches, one call after the other.  SpecIndex: two      *)
(* threads that search at the same time.  A find_similar call is a frame   *)
(* of searches, and goes statement by statement:                           *)
(*   ensure_indexed  if self._auto_indexed: return                         *)
(*   count           count = the number of rows of prompt_embeddings       *)
(*   do_index        if count == 0: self._do_index()                       *)
(*   set_indexed     self._auto_indexed = True                             *)
(*   select          SELECT ... FROM prompt_embeddings, filter, sort, cut  *)
(* and ends as returned, with the list, or as raised, with the exception.  *)

Threads == {1, 2}

IdleFrame == [pc |-> "idle"]

\* the prompt ids embeddings are stored under: a builtin prompt and a saved one
EmbeddedIds == {"ask_plan_act", "base"}

EmbeddedTypes == {"default", "custom"}

\* least and largest top_k tried: below 0, results[:top_k] counts from the end
MinTopK == 0 - 1

MaxTopK == 2

\* min_similarity, in millionths: the default 0.3, and 1.0
MinSimilarities == {300000, 1000000}

\* the registry with the prompt base saved
BaseSaved ==
    save_prompt([custom_prompts |-> << >>, usage_log |-> 0, files |-> InstalledFiles],
                "base", Some(BaseText), None, None, None).st.custom_prompts

InitEmbed ==
    /\ custom_prompts \in {<< >>, BaseSaved}
    /\ usage_log = 0
    /\ files = InstalledFiles
    /\ call = NoCall
    /\ result = NoResult
    /\ contents = << >>
    /\ separator = DefaultSeparator
    /\ prompt_embeddings = << >>
    /\ auto_indexed = FALSE
    /\ searches = [t \in Threads |-> IdleFrame]
    /\ QueueIdle
    /\ GuardIdle
    /\ LoaderIdle

NoSearch == \A t \in Threads : searches[t] = IdleFrame

registry_vars == <<custom_prompts, usage_log, files, contents, separator>>

StoreEmbedding(prompt_id, prompt_type, embedding) ==
    /\ call = NoCall
    /\ NoSearch
    /\ prompt_embeddings' = store_embedding(prompt_embeddings, prompt_id,
                                            prompt_type, embedding, "hash")
    /\ call' = [op |-> "store_embedding", prompt_id |-> prompt_id,
                prompt_type |-> prompt_type, embedding |-> embedding]
    /\ result' = None
    /\ UNCHANGED <<guard_vars, loader_vars, registry_vars, auto_indexed, searches, queue_vars>>

GetEmbedding(prompt_id, prompt_type) ==
    /\ call = NoCall
    /\ NoSearch
    /\ call' = [op |-> "get_embedding", prompt_id |-> prompt_id,
                prompt_type |-> prompt_type]
    /\ result' = get_embedding(prompt_embeddings, prompt_id, prompt_type)
    /\ UNCHANGED <<guard_vars, loader_vars, registry_vars, embed_vars, queue_vars>>

\* find_similar(query_embedding, top_k, min_similarity) is called
FindSimilar(t, query_embedding, top_k, min_similarity) ==
    /\ call = NoCall
    /\ searches[t] = IdleFrame
    /\ searches' = [searches EXCEPT ![t] =
                       [pc |-> "ensure_indexed",
                        query_embedding |-> query_embedding,
                        top_k |-> top_k,
                        min_similarity |-> min_similarity,
                        count |-> None]]
    /\ UNCHANGED <<guard_vars, loader_vars, registry_vars, call, result, prompt_embeddings, auto_indexed,
                   queue_vars>>

\* if self._auto_indexed: return
EnsureIndexed(t) ==
    /\ searches[t].pc = "ensure_indexed"
    /\ searches' = [searches EXCEPT ![t].pc =
                       IF auto_indexed THEN "select" ELSE "count"]
    /\ UNCHANGED <<guard_vars, loader_vars, registry_vars, call, result, prompt_embeddings, auto_indexed,
                   queue_vars>>

\* count = the number of rows of prompt_embeddings
CountEmbeddings(t) ==
    /\ searches[t].pc = "count"
    /\ searches' = [searches EXCEPT
                       ![t].count = Some(Len(prompt_embeddings)),
                       ![t].pc = IF Len(prompt_embeddings) = 0 THEN "do_index"
                                 ELSE "set_indexed"]
    /\ UNCHANGED <<guard_vars, loader_vars, registry_vars, call, result, prompt_embeddings, auto_indexed,
                   queue_vars>>

\* if count == 0: self._do_index(), which raises; the exception leaves
\* _ensure_indexed and find_similar
DoIndex(t) ==
    /\ searches[t].pc = "do_index"
    /\ LET out == do_index(prompt_embeddings)
       IN /\ prompt_embeddings' = out.rows
          /\ searches' = [searches EXCEPT ![t] =
                             [pc |-> "raised", exception |-> out.raised,
                              count |-> searches[t].count]]
    /\ UNCHANGED <<guard_vars, loader_vars, registry_vars, call, result, auto_indexed, queue_vars>>

\* self._auto_indexed = True
SetAutoIndexed(t) ==
    /\ searches[t].pc = "set_indexed"
    /\ auto_indexed' = TRUE
    /\ searches' = [searches EXCEPT ![t].pc = "select"]
    /\ UNCHANGED <<guard_vars, loader_vars, registry_vars, call, result, prompt_embeddings, queue_vars>>

\* the SELECT of find_similar and what follows it, to the return;
\* cosine_similarity raises ValueError at a row whose embedding has another
\* length than query_embedding, and the exception leaves find_similar
SelectSimilar(t) ==
    /\ searches[t].pc = "select"
    /\ searches' = [searches EXCEPT ![t] =
                       IF \E i \in DOMAIN prompt_embeddings :
                              ~ShapesAligned(searches[t].query_embedding,
                                             prompt_embeddings[i].embedding)
                       THEN [pc |-> "raised", exception |-> "ValueError",
                             count |-> searches[t].count]
                       ELSE
                       [pc |-> "returned",
                        query_embedding |-> searches[t].query_embedding,
                        top_k |-> searches[t].top_k,
                        min_similarity |-> searches[t].min_similarity,
                        count |-> searches[t].count,
                        results |-> SelectSimilarRows(prompt_embeddings,
                                        searches[t].query_embedding,
                                        searches[t].top_k,
                                        searches[t].min_similarity)]]
    /\ UNCHANGED <<guard_vars, loader_vars, registry_vars, call, result, prompt_embeddings, auto_indexed,
                   queue_vars>>

\* the caller has taken the list, or the exception
EndSearch(t) ==
    /\ searches[t].pc \in {"returned", "raised"}
    /\ searches' = [searches EXCEPT ![t] = IdleFrame]
    /\ UNCHANGED <<guard_vars, loader_vars, registry_vars, call, result, prompt_embeddings, auto_indexed,
                   queue_vars>>

SearchStep(t) ==
    \/ EnsureIndexed(t)
    \/ CountEmbeddings(t)
    \/ DoIndex(t)
    \/ SetAutoIndexed(t)
    \/ SelectSimilar(t)
    \/ EndSearch(t)

NextEmbed ==
    \/ \E prompt_id \in EmbeddedIds, prompt_type \in EmbeddedTypes,
          embedding \in Vectors :
            StoreEmbedding(prompt_id, prompt_type, embedding)
    \/ \E prompt_id \in EmbeddedIds, prompt_type \in EmbeddedTypes :
            GetEmbedding(prompt_id, prompt_type)
    \/ \E query_embedding \in Queries, top_k \in MinTopK..MaxTopK,
          min_similarity \in MinSimilarities :
            /\ NoSearch
            /\ FindSimilar(1, query_embedding, top_k, min_similarity)
    \/ SearchStep(1)
    \/ Return

SpecEmbed == InitEmbed /\ [][NextEmbed]_vars

\* a store of one record, as an earlier store_embedding left it
OneRecord ==
    store_embedding(<< >>, "ask_plan_act", "default", AsFloats(<<1, 0, 0, 0>>), "hash")

InitIndex ==
    /\ custom_prompts \in {<< >>, BaseSaved}
    /\ usage_log = 0
    /\ files = InstalledFiles
    /\ call = NoCall
    /\ result = NoResult
    /\ contents = << >>
    /\ separator = DefaultSeparator
    /\ prompt_embeddings \in {<< >>, OneRecord}
    /\ auto_indexed = FALSE
    /\ searches = [t \in Threads |-> IdleFrame]
    /\ QueueIdle
    /\ GuardIdle
    /\ LoaderIdle

NextIndex ==
    \E t \in Threads :
        \/ \E query_embedding \in Queries, top_k \in MinTopK..MaxTopK,
              min_similarity \in MinSimilarities :
                FindSimilar(t, query_embedding, top_k, min_similarity)
        \/ SearchStep(t)

SpecIndex == InitIndex /\ [][NextIndex]_vars

-----------------------------------------------------------------------------
(* Embeddings manager: properties (SpecEmbed).                             *)
(* and of concurrent searches (SpecIndex).                                 *)

\* the prompts auto-indexing is to cover: the builtin prompts that can be read
\* and the user-saved prompts
KnownPrompts ==
    {name \in DOMAIN default_prompts : DefaultReadable(name)}
        \cup DOMAIN custom_prompts

\* a find_similar call of thread t has ended, and had found the store empty
EndedFirstSearch(t) ==
    /\ searches[t].pc \in {"returned", "raised"}
    /\ searches[t].count = Some(0)

\* C14: when a find_similar call that found the store of embeddings empty has
\* ended, an embedding is stored for every builtin and every user-saved
\* prompt, so the store is not empty when there is such a prompt.
C14_AutoIndexOnFirstSearch ==
    \A t \in Threads :
        EndedFirstSearch(t) =>
            /\ \A name \in KnownPrompts :
                  \E i \in DOMAIN prompt_embeddings :
                      prompt_embeddings[i].prompt_id = name
            /\ KnownPrompts # {} => prompt_embeddings # << >>

\* C15: a find_similar call never ends with an exception: it returns a list,
\* whatever happens while indexing, also on the first search of an empty store.
C15_IndexingNeverAbortsSearch ==
    \A t \in Threads :
        /\ searches[t].pc # "raised"
        /\ searches[t].pc = "returned" => DOMAIN searches[t].results \subseteq Nat

\* C16: store_embedding(r, k, v) makes get_embedding(r, k) return v and leaves
\* what get_embedding returns for every other pair of a reference and a kind
\* as it was, the pair of r and another kind included.
C16_KeyedByReferenceAndKind ==
    [][(call = NoCall /\ call'.op = "store_embedding") =>
         /\ get_embedding(prompt_embeddings', call'.prompt_id, call'.prompt_type)
               = Some(call'.embedding)
         /\ \A r \in EmbeddedIds, k \in EmbeddedTypes :
               <<r, k>> # <<call'.prompt_id, call'.prompt_type>> =>
                   get_embedding(prompt_embeddings', r, k)
                       = get_embedding(prompt_embeddings, r, k)]_vars

\* the similarity of each row of the store to the query of a search
RECURSIVE Similarities(_, _)
Similarities(rows, query_embedding) ==
    IF rows = << >> THEN << >>
    ELSE <<cosine_similarity(query_embedding, rows[1].embedding)>>
         \o Similarities(Tail(rows), query_embedding)

\* the rows of the store whose similarity is min_similarity at least
Qualifying(similarities, min_similarity) ==
    {i \in DOMAIN similarities : FloatLeq(min_similarity, similarities[i])}

\* the rows of the store a result can be: a row of its prompt_id and
\* prompt_type that has its similarity
ResultRows(similarities, found) ==
    {i \in DOMAIN similarities :
        /\ prompt_embeddings[i].prompt_id = found.prompt_id
        /\ prompt_embeddings[i].prompt_type = found.prompt_type
        /\ similarities[i] = found.similarity}

\* the results are stored records whose similarity to the query is
\* min_similarity at least, each once, ordered by non-increasing similarity,
\* and no stored record left out is more similar than a result
RankedAboveMinimum(results, similarities, min_similarity) ==
    LET returned == UNION {ResultRows(similarities, results[k]) : k \in DOMAIN results}
    IN /\ \A k \in DOMAIN results :
             /\ ResultRows(similarities, results[k]) # {}
             /\ FloatLeq(min_similarity, results[k].similarity)
       /\ \A j, k \in DOMAIN results :
             j < k => /\ FloatLeq(results[k].similarity, results[j].similarity)
                      /\ ResultRows(similarities, results[j])
                             # ResultRows(similarities, results[k])
       /\ \A i \in DOMAIN similarities \ returned, k \in DOMAIN results :
             FloatLeq(similarities[i], results[k].similarity)

\* what is claimed of a search that has returned; at_most_top_k tells whether
\* the length is to be top_k at most, or the length of the slice [:top_k] of
\* the records that reach min_similarity
RankedTopK(frame, similarities, min_similarity, at_most_top_k) ==
    /\ Len(similarities) = Len(prompt_embeddings)
    /\ RankedAboveMinimum(frame.results, similarities, min_similarity)
    /\ LET qualifying == Cardinality(Qualifying(similarities, min_similarity))
       IN IF at_most_top_k THEN Len(frame.results) <= frame.top_k
          ELSE IF frame.top_k >= 0
          THEN Len(frame.results) = Min(frame.top_k, qualifying)
          ELSE IF qualifying + frame.top_k > 0
          THEN Len(frame.results) = qualifying + frame.top_k
          ELSE Len(frame.results) = 0

\* C18, as claimed: find_similar returns only stored records whose similarity
\* to the query is min_similarity at least, ordered by non-increasing
\* similarity, at most top_k of them, and no stored record left out is more
\* similar than a returned one.
C18_AtMostTopK ==
    \A t \in Threads :
        searches[t].pc = "returned" =>
            RankedTopK(searches[t],
                       Similarities(prompt_embeddings, searches[t].query_embedding),
                       Millionths(searches[t].min_similarity), TRUE)

\* C18, amended: find_similar returns only stored records whose similarity to
\* the query is min_similarity at least, ordered by non-increasing
\* similarity, and no stored record left out is more similar than a returned
\* one; for top_k >= 0 it returns top_k of them, or all there are when there
\* are fewer, and for top_k < 0 all of them but the -top_k least similar.
C18_RankedTopK ==
    \A t \in Threads :
        searches[t].pc = "returned" =>
            RankedTopK(searches[t],
                       Similarities(prompt_embeddings, searches[t].query_embedding),
                       Millionths(searches[t].min_similarity), FALSE)

\* a search with top_k = 1 over two records that both reach min_similarity
\* returned the one stored last, whose similarity is the next float above
\* that of the other, and left out the other
C18_Witness ==
    /\ searches[1].pc = "returned"
    /\ searches[1].top_k = 1
    /\ Len(prompt_embeddings) = 2
    /\ Len(searches[1].results) = 1
    /\ searches[1].results[1].prompt_id = prompt_embeddings[2].prompt_id
    /\ searches[1].results[1].prompt_type = prompt_embeddings[2].prompt_type
    /\ LET least == cosine_similarity(searches[1].query_embedding,
                                      prompt_embeddings[1].embedding)
       IN /\ FloatLeq(Millionths(searches[1].min_similarity), least)
          /\ least.exponent = searches[1].results[1].similarity.exponent
          /\ DigitsPlus(least.mantissa, << >>, 1)
                = searches[1].results[1].similarity.mantissa

\* the references one indexing run of the empty store leaves a record for
IndexedReferences ==
    {<<do_index(<< >>).rows[i].prompt_id, do_index(<< >>).rows[i].prompt_type>> :
        i \in DOMAIN do_index(<< >>).rows}

-----------------------------------------------------------------------------
(* Progress queue (tools/progress_queue.py).  The table progress_queue is  *)
(* the sequence of its rows: ids are AUTOINCREMENT and no row is deleted,  *)
(* so the row of id i is the i-th.  A row keeps id, content, importance,   *)
(* tags, created_at and completed_at.  tags is json.dumps of a list of     *)
(* strings, which json.loads gives back unchanged, so the row keeps the    *)
(* list.  A time stamp, datetime.now().isoformat(), is the tick of the     *)
(* clock at which it was taken; completed_at is None or a time stamp.      *)
(* An operation takes the table and the clock, as q = [rows, now], and     *)
(* returns [ret |-> the returned dict, q |-> the table and clock left].    *)

\* the incomplete rows among rows
Incomplete(rows) == {i \in DOMAIN rows : rows[i].completed_at = None}

\* progress_push(content, importance, tags) -> dict
progress_push(q, content, importance, tags) ==
    LET item_id == Len(q.rows) + 1
        row == [id |-> item_id,
                content |-> content,
                importance |-> importance,
                tags |-> IF TruthyList(tags) THEN tags[1] ELSE << >>,
                created_at |-> q.now,
                completed_at |-> None]
        rows == Append(q.rows, row)
    IN [ret |-> [id |-> item_id,
                 position |-> Cardinality({i \in Incomplete(rows) : i < item_id}),
                 queue_size |-> Cardinality(Incomplete(rows))],
        q |-> [rows |-> rows, now |-> q.now + 1]]

\* a progress_pop that takes the oldest incomplete item, sticky or not
progress_pop_sticky(q) ==
    LET candidates == Incomplete(q.rows)
    IN IF candidates = {} THEN [ret |-> [error |-> "empty"], q |-> q]
       ELSE LET item_id == CHOOSE i \in candidates : \A j \in candidates : i <= j
                row == q.rows[item_id]
            IN [ret |-> [id |-> item_id, content |-> row.content,
                         importance |-> row.importance, tags |-> row.tags,
                         created_at |-> row.created_at, completed_at |-> q.now],
                q |-> [rows |-> [q.rows EXCEPT ![item_id].completed_at = Some(q.now)],
                       now |-> q.now + 1]]

\* progress_pop() -> dict
progress_pop(q) ==
    LET candidates == {i \in Incomplete(q.rows) : q.rows[i].importance = 0}
    IN IF candidates = {} THEN [ret |-> [error |-> "empty"], q |-> q]
       ELSE LET item_id == CHOOSE i \in candidates : \A j \in candidates : i <= j
                row == q.rows[item_id]
                completed_at == q.now
            IN [ret |-> [id |-> item_id,
                         content |-> row.content,
                         importance |-> row.importance,
                         tags |-> row.tags,
                         created_at |-> row.created_at,
                         completed_at |-> completed_at],
                q |-> [rows |-> [q.rows EXCEPT
                                    ![item_id].completed_at = Some(completed_at)],
                       now |-> q.now + 1]]

\* a progress_complete that completes a completed item again
progress_complete_again(q, item_id) ==
    IF item_id \notin DOMAIN q.rows
    THEN [ret |-> [error |-> "not_found"], q |-> q]
    ELSE [ret |-> [status |-> "success", completed_at |-> q.now],
          q |-> [rows |-> [q.rows EXCEPT ![item_id].completed_at = Some(q.now)],
                 now |-> q.now + 1]]

\* progress_complete(item_id) -> dict
progress_complete(q, item_id) ==
    IF item_id \notin DOMAIN q.rows
    THEN [ret |-> [error |-> "not_found"], q |-> q]
    ELSE IF q.rows[item_id].completed_at # None
    THEN [ret |-> [error |-> "already_completed"], q |-> q]
    ELSE LET completed_at == q.now
         IN [ret |-> [status |-> "success", completed_at |-> completed_at],
             q |-> [rows |-> [q.rows EXCEPT
                                 ![item_id].completed_at = Some(completed_at)],
                    now |-> q.now + 1]]

\* s.lower() for ASCII, as LIKE compares
RECURSIVE AsciiLower(_)
AsciiLower(s) ==
    IF s = "" THEN ""
    ELSE LET c == Char(s, 1)
             up == {k \in 1..Len(UpperCase) : Char(UpperCase, k) = c}
         IN (IF up # {} THEN Char(LowerCase, CHOOSE k \in up : TRUE) ELSE c)
            \o AsciiLower(Drop(s, 1))

\* json.dumps(tags) of a list of plain strings, the column tags
TagsJson(tags) ==
    "[" \o Join([i \in DOMAIN tags |-> "\"" \o tags[i] \o "\""], ", ") \o "]"

\* tags LIKE '%"tag_filter"%', for a tag_filter without % and _
TagsLike(tags, tag_filter) ==
    LET s == AsciiLower(TagsJson(tags))
        sub == AsciiLower("\"" \o tag_filter \o "\"")
    IN \E i \in 1..(Len(s) - Len(sub) + 1) : SubSeq(s, i, i + Len(sub) - 1) = sub

\* ORDER BY CASE WHEN completed_at IS NULL THEN 0 ELSE 1 END, importance DESC, id
ListedBefore(a, b) ==
    LET done_a == IF a.completed_at = None THEN 0 ELSE 1
        done_b == IF b.completed_at = None THEN 0 ELSE 1
    IN \/ done_a < done_b
       \/ done_a = done_b /\ a.importance > b.importance
       \/ done_a = done_b /\ a.importance = b.importance /\ a.id <= b.id

\* the rows of the ids in that order
RECURSIVE ListOrder(_, _)
ListOrder(rows, ids) ==
    IF ids = {} THEN << >>
    ELSE LET first == CHOOSE i \in ids :
                         \A j \in ids : ListedBefore(rows[i], rows[j])
         IN <<rows[first]>> \o ListOrder(rows, ids \ {first})

\* a progress_list that counts every incomplete item of importance other
\* than 0 as sticky
progress_list_nonzero(q, limit, include_completed, tag_filter) ==
    LET selected == {i \in DOMAIN q.rows :
                        /\ include_completed \/ q.rows[i].completed_at = None
                        /\ Truthy(tag_filter) =>
                              TagsLike(q.rows[i].tags, tag_filter[1])}
        ordered == ListOrder(q.rows, selected)
    IN [ret |-> [items |-> IF limit < 0 THEN ordered ELSE Take(ordered, limit),
                 total |-> Cardinality(selected),
                 sticky_count |-> Cardinality({i \in Incomplete(q.rows) :
                                                 q.rows[i].importance # 0})],
        q |-> q]

\* progress_list(limit, include_completed, tag_filter) -> dict
progress_list(q, limit, include_completed, tag_filter) ==
    LET selected == {i \in DOMAIN q.rows :
                        /\ include_completed \/ q.rows[i].completed_at = None
                        /\ Truthy(tag_filter) =>
                              TagsLike(q.rows[i].tags, tag_filter[1])}
        ordered == ListOrder(q.rows, selected)
        \* LIMIT ?: a negative limit is no limit
        items == IF limit < 0 THEN ordered ELSE Take(ordered, limit)
        total == Cardinality(selected)
        sticky_count == Cardinality({i \in Incomplete(q.rows) :
                                        q.rows[i].importance > 0})
    IN [ret |-> [items |-> items, total |-> total, sticky_count |-> sticky_count],
        q |-> q]

-----------------------------------------------------------------------------
(* SpecQueue: a session of calls of progress_push, progress_pop,           *)
(* progress_complete and progress_list.                                    *)

\* most items pushed
MaxItems == 3

\* the items pushed, each a content and its tags: one without tags, one tagged
Tasks == {<<"Task 1", None>>, <<"Task 2", Some(<<"urgent">>)>>}

\* the importances pushed: normal, sticky, and a negative one
Importances == {-1, 0, 1}

\* the table and the clock the queue operations work on
Queue == [rows |-> progress_queue, now |-> now]

InitQueue ==
    /\ RegistryIdle
    /\ EmbeddingsIdle
    /\ GuardIdle
    /\ LoaderIdle
    /\ contents = << >>
    /\ separator = DefaultSeparator
    /\ call = NoCall
    /\ result = NoResult
    /\ progress_queue = << >>
    /\ now = 0

ProgressPush(content, importance, tags) ==
    /\ call = NoCall
    /\ Len(progress_queue) < MaxItems
    /\ LET out == progress_push(Queue, content, importance, tags)
       IN /\ progress_queue' = out.q.rows
          /\ now' = out.q.now
          /\ result' = out.ret
    /\ call' = [op |-> "progress_push", content |-> content,
                importance |-> importance, tags |-> tags]
    /\ UNCHANGED <<guard_vars, loader_vars, registry_vars, embed_vars>>

ProgressPop ==
    /\ call = NoCall
    /\ LET out == progress_pop(Queue)
       IN /\ progress_queue' = out.q.rows
          /\ now' = out.q.now
          /\ result' = out.ret
    /\ call' = [op |-> "progress_pop"]
    /\ UNCHANGED <<guard_vars, loader_vars, registry_vars, embed_vars>>

ProgressComplete(item_id) ==
    /\ call = NoCall
    /\ LET out == progress_complete(Queue, item_id)
       IN /\ progress_queue' = out.q.rows
          /\ now' = out.q.now
          /\ result' = out.ret
    /\ call' = [op |-> "progress_complete", item_id |-> item_id]
    /\ UNCHANGED <<guard_vars, loader_vars, registry_vars, embed_vars>>

\* the calls of progress_list, each a limit, include_completed and a tag
\* filter: the defaults, a short list with the completed items, a tag
ListCalls == {<<10, FALSE, None>>, <<1, TRUE, None>>, <<10, FALSE, Some("URGENT")>>}

ProgressList(limit, include_completed, tag_filter) ==
    /\ call = NoCall
    /\ LET out == progress_list(Queue, limit, include_completed, tag_filter)
       IN /\ progress_queue' = out.q.rows
          /\ now' = out.q.now
          /\ result' = out.ret
    /\ call' = [op |-> "progress_list", limit |-> limit,
                include_completed |-> include_completed,
                tag_filter |-> tag_filter]
    /\ UNCHANGED <<guard_vars, loader_vars, registry_vars, embed_vars>>

NextQueue ==
    \/ \E task \in Tasks, importance \in Importances :
            ProgressPush(task[1], importance, task[2])
    \/ ProgressPop
    \/ \E item_id \in 0..(MaxItems + 1) : ProgressComplete(item_id)
    \/ \E listing \in ListCalls : ProgressList(listing[1], listing[2], listing[3])
    \/ Return

SpecQueue == InitQueue /\ [][NextQueue]_vars

-----------------------------------------------------------------------------
(* Progress queue: properties (SpecQueue).                                 *)

\* the items progress_pop may take: incomplete, with importance 0
Poppable == {i \in DOMAIN progress_queue :
                /\ progress_queue[i].completed_at = None
                /\ progress_queue[i].importance = 0}

\* the items that are completed
Completed == {i \in DOMAIN progress_queue : progress_queue[i].completed_at # None}

\* all rows but that of id i are as they were, and no row is added
OnlyRowChanged(i) ==
    /\ Len(progress_queue') = Len(progress_queue)
    /\ \A j \in DOMAIN progress_queue : j # i => progress_queue'[j] = progress_queue[j]

\* C19: progress_pop returns the incomplete item of importance 0 with the
\* smallest id, which is the one pushed first, and marks it completed,
\* leaving the other items alone; it returns no item of another importance;
\* and it returns the error "empty", and changes nothing, when there is no
\* incomplete item of importance 0.
C19_PopIsFifoOverNonSticky ==
    [][(call = NoCall /\ call'.op = "progress_pop") =>
         IF Poppable = {}
         THEN /\ result' = [error |-> "empty"]
              /\ progress_queue' = progress_queue
         ELSE LET first == CHOOSE i \in Poppable : \A j \in Poppable : i <= j
              IN /\ "error" \notin DOMAIN result'
                 /\ result'.id = first
                 /\ result'.content = progress_queue[first].content
                 /\ result'.importance = 0
                 /\ \A j \in Poppable :
                       progress_queue[j].created_at
                           >= progress_queue[first].created_at
                 /\ progress_queue'[first].completed_at # None
                 /\ progress_queue'[first].content = progress_queue[first].content
                 /\ OnlyRowChanged(first)]_vars

\* a pop that passed over an older sticky item, took the oldest item of
\* importance 0 and left a younger one of importance 0 in the queue
C19_Witness ==
    /\ call.op = "progress_pop"
    /\ "id" \in DOMAIN result
    /\ result.id = 2
    /\ Len(progress_queue) = 3
    /\ progress_queue[1].importance > 0
    /\ progress_queue[1].completed_at = None
    /\ progress_queue[2].completed_at # None
    /\ progress_queue[3].importance = 0
    /\ progress_queue[3].completed_at = None

\* C20: progress_complete returns not_found for an unknown id and
\* already_completed for a completed item, and changes nothing in both cases;
\* for an incomplete item it succeeds and completes that item only; a
\* completed item stays completed, whatever is called, and progress_pop
\* does not return it.
C20_CompleteAtMostOnce ==
    [][/\ (call = NoCall /\ call'.op = "progress_complete") =>
            LET item_id == call'.item_id
            IN IF item_id \notin DOMAIN progress_queue
               THEN /\ result' = [error |-> "not_found"]
                    /\ progress_queue' = progress_queue
               ELSE IF item_id \in Completed
               THEN /\ result' = [error |-> "already_completed"]
                    /\ progress_queue' = progress_queue
               ELSE /\ result'.status = "success"
                    /\ progress_queue'[item_id].completed_at # None
                    /\ OnlyRowChanged(item_id)
       /\ \A i \in Completed :
             /\ i \in DOMAIN progress_queue'
             /\ progress_queue'[i] = progress_queue[i]
       /\ (call = NoCall /\ call'.op = "progress_pop" /\ "id" \in DOMAIN result')
             => result'.id \notin Completed]_vars

\* a progress_complete of a completed item of importance 0 was refused, while
\* an item that only progress_complete completes is completed too
C20_Witness ==
    /\ call.op = "progress_complete"
    /\ result = [error |-> "already_completed"]
    /\ call.item_id \in Completed
    /\ progress_queue[call.item_id].importance = 0
    /\ \E i \in Completed : i # call.item_id /\ progress_queue[i].importance # 0

\* the incomplete items of negative importance
NegativeItems == {i \in DOMAIN progress_queue :
                     /\ progress_queue[i].completed_at = None
                     /\ progress_queue[i].importance < 0}

\* the incomplete items of positive importance
StickyItems == {i \in DOMAIN progress_queue :
                   /\ progress_queue[i].completed_at = None
                   /\ progress_queue[i].importance > 0}

\* C28: an incomplete item of negative importance is neither poppable nor
\* sticky: progress_pop never returns it, and returns the error "empty" when
\* every incomplete item has an importance other than 0; progress_list counts
\* in sticky_count the incomplete items of positive importance only, and
\* changes nothing.
C28_NegativeNeitherPoppedNorSticky ==
    [][/\ (call = NoCall /\ call'.op = "progress_pop") =>
            /\ "id" \in DOMAIN result' => result'.id \notin NegativeItems
            /\ Poppable = {} => result' = [error |-> "empty"]
       /\ (call = NoCall /\ call'.op = "progress_list") =>
            /\ result'.sticky_count = Cardinality(StickyItems)
            /\ progress_queue' = progress_queue]_vars

\* progress_list listed an incomplete item of negative importance and
\* counted no sticky item, in a queue from which progress_pop returns "empty"
C28_Witness ==
    /\ call.op = "progress_list"
    /\ result.sticky_count = 0
    /\ \E k \in DOMAIN result.items :
          /\ result.items[k].importance < 0
          /\ result.items[k].completed_at = None
    /\ NegativeItems # {}
    /\ progress_pop(Queue).ret = [error |-> "empty"]

-----------------------------------------------------------------------------
(* The deduplication guard (tools/tool_dedup_guard.py).                    *)
(*                                                                         *)
(* params is a Python dict of strings: the sequence of its (key, value)    *)
(* items in insertion order, no key twice.  A row of dedup_log is a        *)
(* record.  datetime.now() is read at each call, and a second time when a  *)
(* call is logged; a reading is a number of microseconds, a time stamp,    *)
(* datetime.now().isoformat(), is the reading it was made of, and time     *)
(* stamps compare as text in the order of their readings.  sha256 is taken *)
(* to be free of collisions: the hash of a text is the text.  An operation *)
(* takes the tables and the readings of the clock it will get, as          *)
(* g = [log, safety, now, later], now the first reading and later the one  *)
(* that follows, and returns [ret |-> the returned dict, g |-> the tables  *)
(* left].                                                                  *)

\* timedelta(seconds=1), in microseconds
MicrosPerSecond == 1000000

\* the keys of the dicts passed as params, in the order sort_keys gives them
SortedKeys == <<"content", "data", "file_path", "param1">>

\* "key" in params
HasKey(params, key) == \E i \in DOMAIN params : params[i][1] = key

\* the place of key among the items of params
IndexOfKey(params, key) == (CHOOSE i \in DOMAIN params : params[i][1] = key)

\* the items of params in the order of their keys
RECURSIVE SortItems(_, _)
SortItems(params, keys) ==
    IF keys = << >> THEN << >>
    ELSE (IF HasKey(params, Head(keys))
          THEN <<params[IndexOfKey(params, Head(keys))]>>
          ELSE << >>) \o SortItems(params, Tail(keys))

\* the text json.dumps writes for the items, in the order given
RECURSIVE DumpItems(_)
DumpItems(items) ==
    IF items = << >> THEN ""
    ELSE "\"" \o items[1][1] \o "\": \"" \o items[1][2] \o "\""
         \o (IF Len(items) > 1 THEN ", " ELSE "") \o DumpItems(Tail(items))

\* a json.dumps(params) that keeps the insertion order
json_dumps_unsorted(params) == "{" \o DumpItems(params) \o "}"

\* json.dumps(params, sort_keys=True)
json_dumps(params) == "{" \o DumpItems(SortItems(params, SortedKeys)) \o "}"

\* compute_hash(tool_name, params) -> str
compute_hash(tool_name, params) == tool_name \o ":" \o json_dumps(params)

\* the rows of the log a call of tool_name with params_hash is a duplicate of
RecentRows(log, tool_name, params_hash, cutoff_time) ==
    {i \in DOMAIN log : /\ log[i].tool_name = tool_name
                        /\ log[i].params_hash = params_hash
                        /\ log[i].timestamp > cutoff_time}

\* ORDER BY timestamp DESC LIMIT 1, over the rows numbered S
LatestRow(log, S) == CHOOSE i \in S : \A j \in S : log[j].timestamp <= log[i].timestamp

\* a tool_dedup_guard that logs the calls it refuses as duplicates too
tool_dedup_guard_logs_refused(g, tool_name, params, session_id, ttl_seconds) ==
    LET params_hash == compute_hash(tool_name, params)
        recent == RecentRows(g.log, tool_name, params_hash,
                             g.now - ttl_seconds * MicrosPerSecond)
        logged == [g EXCEPT !.log = Append(g.log,
                        [tool_name |-> tool_name, params_hash |-> params_hash,
                         params_json |-> json_dumps(params),
                         timestamp |-> g.later, session_id |-> session_id])]
    IN IF recent # {}
       THEN [ret |-> [safe |-> FALSE, reason |-> "Duplicate call detected",
                      last_called |-> Some(g.log[LatestRow(g.log, recent)].timestamp)],
             g |-> logged]
       ELSE IF /\ tool_name = "write_file"
               /\ HasKey(params, "file_path")
               /\ params[IndexOfKey(params, "file_path")][2] \notin DOMAIN g.safety
       THEN [ret |-> [safe |-> FALSE,
                      reason |-> "Safe-write rule violation: file must be read before writing",
                      last_called |-> None],
             g |-> g]
       ELSE [ret |-> [safe |-> TRUE, reason |-> "No duplicate detected",
                      last_called |-> None],
             g |-> logged]

\* a tool_dedup_guard without the safe-write rule
tool_dedup_guard_no_write_rule(g, tool_name, params, session_id, ttl_seconds) ==
    LET params_hash == compute_hash(tool_name, params)
        recent == RecentRows(g.log, tool_name, params_hash,
                             g.now - ttl_seconds * MicrosPerSecond)
    IN IF recent # {}
       THEN [ret |-> [safe |-> FALSE, reason |-> "Duplicate call detected",
                      last_called |-> Some(g.log[LatestRow(g.log, recent)].timestamp)],
             g |-> g]
       ELSE [ret |-> [safe |-> TRUE, reason |-> "No duplicate detected",
                      last_called |-> None],
             g |-> [g EXCEPT !.log = Append(g.log,
                        [tool_name |-> tool_name, params_hash |-> params_hash,
                         params_json |-> json_dumps(params),
                         timestamp |-> g.later, session_id |-> session_id])]]

\* tool_dedup_guard(tool_name, params, session_id, ttl_seconds) -> dict
\* (the reason of a duplicate is given without the time stamp it quotes,
\* which last_called carries)
tool_dedup_guard(g, tool_name, params, session_id, ttl_seconds) ==
    LET params_hash == compute_hash(tool_name, params)
        cutoff_time == g.now - ttl_seconds * MicrosPerSecond
        recent == RecentRows(g.log, tool_name, params_hash, cutoff_time)
    IN IF recent # {}
       THEN [ret |-> [safe |-> FALSE, reason |-> "Duplicate call detected",
                      last_called |-> Some(g.log[LatestRow(g.log, recent)].timestamp)],
             g |-> g]
       ELSE IF /\ tool_name = "write_file"
               /\ HasKey(params, "file_path")
               /\ params[IndexOfKey(params, "file_path")][2] \notin DOMAIN g.safety
       THEN [ret |-> [safe |-> FALSE,
                      reason |-> "Safe-write rule violation: file must be read before writing",
                      last_called |-> None],
             g |-> g]
       ELSE LET timestamp == g.later
                params_json == json_dumps(params)
            IN [ret |-> [safe |-> TRUE, reason |-> "No duplicate detected",
                         last_called |-> None],
                g |-> [g EXCEPT !.log = Append(g.log,
                           [tool_name |-> tool_name, params_hash |-> params_hash,
                            params_json |-> params_json,
                            timestamp |-> timestamp, session_id |-> session_id])]]

\* register_file_read(file_path) -> dict
register_file_read(g, file_path) ==
    LET timestamp == g.now
    IN [ret |-> [status |-> "success", timestamp |-> timestamp],
        g |-> [g EXCEPT !.safety =
                  [p \in DOMAIN g.safety \cup {file_path} |->
                      IF p = file_path THEN timestamp ELSE g.safety[p]]]]

\* DELETE FROM dedup_log WHERE timestamp < cutoff_time: the rows that stay
KeptRows(log, cutoff_time) ==
    SelectSeq(log, LAMBDA row : ~(row.timestamp < cutoff_time))

\* clear_dedup_log(older_than_seconds) -> dict
clear_dedup_log(g, older_than_seconds) ==
    LET cutoff_time == g.now - older_than_seconds * MicrosPerSecond
        total_before == Len(g.log)
        log == KeptRows(g.log, cutoff_time)
    IN [ret |-> [deleted |-> total_before - Len(log), remaining |-> Len(log)],
        g |-> [g EXCEPT !.log = log]]

-----------------------------------------------------------------------------
(* SpecGuard: a session of calls of tool_dedup_guard, register_file_read   *)
(* and clear_dedup_log.  Each call reads the clock, some time after the    *)
(* last reading was made.                                                  *)

\* most rows of dedup_log
MaxLog == 3

\* the last whole second of the clock
MaxClock == 2

\* the most microseconds a reading has on top of its whole seconds
MaxMicros == 4

\* the microseconds between the last reading of the clock and the first
\* reading of a call: next to none, and a second
Elapsed == {1, MicrosPerSecond}

\* the microseconds between the first reading of a call and its second
Took == {1, 2}

\* the reading is one the session gets to
ClockWithin(reading) ==
    /\ reading \div MicrosPerSecond <= MaxClock
    /\ reading % MicrosPerSecond <= MaxMicros

\* the file a write is asked for, and another one
GuardPaths == {"/test/file.txt", "/test/other.txt"}

\* the calls put to the guard, each a tool name, its params and the ttl: a
\* dict in both orders of its keys, the same with a short ttl, other params,
\* another tool, and write_file with and without a file_path
GuardCalls ==
    {<<"test_tool", <<<<"param1", "value1">>, <<"data", "test">>>>, 2>>,
     <<"test_tool", <<<<"data", "test">>, <<"param1", "value1">>>>, 2>>,
     <<"test_tool", <<<<"data", "test">>, <<"param1", "value1">>>>, 1>>,
     <<"test_tool", <<<<"param1", "value2">>>>, 2>>,
     <<"other_tool", <<<<"param1", "value1">>, <<"data", "test">>>>, 2>>,
     <<"write_file", <<<<"file_path", "/test/file.txt">>, <<"content", "data">>>>, 2>>,
     <<"write_file", <<<<"content", "data">>>>, 2>>}

\* the values of older_than_seconds
ClearAges == {0, 1}

\* the tables the guard operations work on, and the readings of the clock a
\* call gets
Guard(reading, later) ==
    [log |-> dedup_log, safety |-> write_safety, now |-> reading, later |-> later]

InitGuard ==
    /\ RegistryIdle
    /\ EmbeddingsIdle
    /\ QueueIdle
    /\ LoaderIdle
    /\ contents = << >>
    /\ separator = DefaultSeparator
    /\ call = NoCall
    /\ result = NoResult
    /\ dedup_log = << >>
    /\ write_safety = << >>
    /\ accepted = {}

\* tool_dedup_guard is called elapsed microseconds after the last reading of
\* the clock, and reads the clock again took microseconds later when it logs
\* the call
ToolDedupGuard(tool_name, params, ttl_seconds, elapsed, took) ==
    /\ call = NoCall
    /\ Len(dedup_log) < MaxLog
    /\ LET out == tool_dedup_guard(Guard(now + elapsed, now + elapsed + took),
                                   tool_name, params, None, ttl_seconds)
       IN /\ dedup_log' = out.g.log
          /\ write_safety' = out.g.safety
          /\ result' = out.ret
          /\ now' = IF out.ret.safe THEN now + elapsed + took ELSE now + elapsed
          /\ ClockWithin(now')
          /\ accepted' = IF ~out.ret.safe THEN accepted
                         ELSE accepted \cup {[tool_name |-> tool_name,
                                              params |-> params,
                                              timestamp |-> now + elapsed + took]}
    /\ call' = [op |-> "tool_dedup_guard", tool_name |-> tool_name,
                params |-> params, ttl_seconds |-> ttl_seconds,
                now |-> now + elapsed]
    /\ UNCHANGED <<registry_vars, embed_vars, progress_queue, loader_vars>>

RegisterFileRead(file_path, elapsed) ==
    /\ call = NoCall
    /\ ClockWithin(now + elapsed)
    /\ LET out == register_file_read(Guard(now + elapsed, now + elapsed), file_path)
       IN /\ dedup_log' = out.g.log
          /\ write_safety' = out.g.safety
          /\ result' = out.ret
    /\ now' = now + elapsed
    /\ call' = [op |-> "register_file_read", file_path |-> file_path]
    /\ UNCHANGED <<registry_vars, embed_vars, progress_queue, loader_vars, accepted>>

ClearDedupLog(older_than_seconds, elapsed) ==
    /\ call = NoCall
    /\ ClockWithin(now + elapsed)
    /\ LET out == clear_dedup_log(Guard(now + elapsed, now + elapsed),
                                  older_than_seconds)
       IN /\ dedup_log' = out.g.log
          /\ write_safety' = out.g.safety
          /\ result' = out.ret
    /\ now' = now + elapsed
    /\ call' = [op |-> "clear_dedup_log", older_than_seconds |-> older_than_seconds,
                now |-> now + elapsed]
    /\ UNCHANGED <<registry_vars, embed_vars, progress_queue, loader_vars, accepted>>

NextGuard ==
    \/ \E c \in GuardCalls, elapsed \in Elapsed, took \in Took :
          ToolDedupGuard(c[1], c[2], c[3], elapsed, took)
    \/ \E file_path \in GuardPaths, elapsed \in Elapsed :
          RegisterFileRead(file_path, elapsed)
    \/ \E older_than_seconds \in ClearAges, elapsed \in Elapsed :
          ClearDedupLog(older_than_seconds, elapsed)
    \/ Return

SpecGuard == InitGuard /\ [][NextGuard]_vars

-----------------------------------------------------------------------------
(* Deduplication guard: properties (SpecGuard).                            *)

\* the orders in which the items of a dict can stand
Orderings(params) ==
    {q \in [DOMAIN params -> {params[i] : i \in DOMAIN params}] :
        \A i, j \in DOMAIN q : i # j => q[i] # q[j]}

\* the texts that are a JSON object with the items of params, in any order
Dumps(params) == {json_dumps_unsorted(q) : q \in Orderings(params)}

\* the time stamps of the rows of the log that record a call of tool_name
\* with the items of params, made less than ttl_seconds before the reading
LoggedWithin(tool_name, params, ttl_seconds, reading) ==
    {dedup_log[i].timestamp : i \in
        {i \in DOMAIN dedup_log :
            /\ dedup_log[i].tool_name = tool_name
            /\ dedup_log[i].params_json \in Dumps(params)
            /\ reading - dedup_log[i].timestamp < ttl_seconds * MicrosPerSecond}}

\* the time stamps with which a call of tool_name with the items of params
\* was accepted and logged less than ttl_seconds before the reading
AcceptedWithin(tool_name, params, ttl_seconds, reading) ==
    {a.timestamp : a \in
        {a \in accepted :
            /\ a.tool_name = tool_name
            /\ {a.params[i] : i \in DOMAIN a.params}
                  = {params[i] : i \in DOMAIN params}
            /\ reading - a.timestamp < ttl_seconds * MicrosPerSecond}}

\* the safe-write rule applies to the call
IsGuardedWrite(tool_name, params) ==
    tool_name = "write_file" /\ HasKey(params, "file_path")

\* the step is a call of tool_dedup_guard
IsGuardStep == call = NoCall /\ call'.op = "tool_dedup_guard"

\* the step, a call of tool_dedup_guard, refuses the call as a duplicate
\* exactly when recent, the time stamps of the calls it can be a duplicate
\* of, is not empty, and then leaves the log as it is; otherwise, the
\* write_file rule aside, the call is safe and is logged with the time read
\* while it is logged
BlockedExactlyWhen(recent) ==
    LET tool_name == call'.tool_name
        params == call'.params
    IN /\ recent # {} =>
             /\ result'.safe = FALSE
             /\ result'.reason = "Duplicate call detected"
             /\ \E timestamp \in recent : result'.last_called = Some(timestamp)
             /\ dedup_log' = dedup_log
       /\ recent = {} => result'.reason # "Duplicate call detected"
       /\ (recent = {} /\ ~IsGuardedWrite(tool_name, params)) =>
             /\ result'.safe = TRUE
             /\ Len(dedup_log') = Len(dedup_log) + 1
             /\ SubSeq(dedup_log', 1, Len(dedup_log)) = dedup_log
             /\ LET row == dedup_log'[Len(dedup_log')]
                IN /\ row.tool_name = tool_name
                   /\ row.params_json \in Dumps(params)
                   /\ row.timestamp = now'
                   /\ row.timestamp > call'.now

\* C21, as claimed: tool_dedup_guard refuses a call as a duplicate exactly
\* when a call of the same tool with the same params, whatever the order of
\* their keys, was accepted and logged less than ttl_seconds ago; otherwise,
\* the write_file rule aside, the call is safe and is logged.
C21_BlockedExactlyWhenAccepted ==
    [][IsGuardStep =>
          BlockedExactlyWhen(AcceptedWithin(call'.tool_name, call'.params,
                                            call'.ttl_seconds, call'.now))]_vars

\* C21, amended: tool_dedup_guard refuses a call as a duplicate exactly when
\* dedup_log holds a call of the same tool with the same params, whatever the
\* order of their keys, logged less than ttl_seconds ago, and then the log
\* stays as it is; otherwise, the write_file rule aside, the call is safe and
\* is logged with the present time.
C21_BlockedExactlyWithinTtl ==
    [][IsGuardStep =>
          BlockedExactlyWhen(LoggedWithin(call'.tool_name, call'.params,
                                          call'.ttl_seconds, call'.now))]_vars

\* a call was refused as a duplicate of a call logged with its keys in
\* another order, after the same call had been accepted a second time once
\* its first row was older than the ttl
C21_Witness ==
    /\ call.op = "tool_dedup_guard"
    /\ result.safe = FALSE
    /\ result.last_called # None
    /\ \E i, j \in DOMAIN dedup_log :
          /\ i < j
          /\ dedup_log[i].tool_name = call.tool_name
          /\ dedup_log[i].params_hash = dedup_log[j].params_hash
          /\ dedup_log[j].params_json \in Dumps(call.params)
          /\ dedup_log[j].params_json # json_dumps_unsorted(call.params)
          /\ dedup_log[j].timestamp - dedup_log[i].timestamp >= 2 * MicrosPerSecond
          /\ result.last_called = Some(dedup_log[j].timestamp)

\* a call accepted less than ttl_seconds ago was accepted again, since
\* clear_dedup_log had deleted its row: the log holds the new row only, with
\* the keys of the call in another order
C21_AcceptedAgainWitness ==
    /\ call.op = "tool_dedup_guard"
    /\ result.safe = TRUE
    /\ Len(dedup_log) = 1
    /\ dedup_log[1].params_json # json_dumps_unsorted(call.params)
    /\ \E a \in accepted :
          /\ a.tool_name = call.tool_name
          /\ a.params # call.params
          /\ a.timestamp < call.now
          /\ a.timestamp \in AcceptedWithin(call.tool_name, call.params,
                                            call.ttl_seconds, call.now)


\* the path a guarded write names
WritePath(params) == params[IndexOfKey(params, "file_path")][2]

\* C22: a write_file call with a file_path is safe only if the path is
\* registered in write_safety, where only register_file_read of exactly that
\* path puts it; for a path not registered the call is refused with a
\* safe-write violation and dedup_log stays as it is.
C22_SafeWriteRule ==
    [][/\ (IsGuardStep /\ IsGuardedWrite(call'.tool_name, call'.params)) =>
            LET file_path == WritePath(call'.params)
            IN /\ result'.safe = TRUE => file_path \in DOMAIN write_safety
               /\ file_path \notin DOMAIN write_safety =>
                     /\ result'.safe = FALSE
                     /\ result'.reason =
                           "Safe-write rule violation: file must be read before writing"
                     /\ result'.last_called = None
                     /\ dedup_log' = dedup_log
       /\ DOMAIN write_safety' # DOMAIN write_safety =>
            /\ call = NoCall
            /\ call'.op = "register_file_read"
            /\ DOMAIN write_safety' = DOMAIN write_safety \cup {call'.file_path}]_vars

\* a write was refused for a path not registered while another path was, and
\* the log held an accepted call
C22_Witness ==
    /\ call.op = "tool_dedup_guard"
    /\ IsGuardedWrite(call.tool_name, call.params)
    /\ result.safe = FALSE
    /\ result.reason = "Safe-write rule violation: file must be read before writing"
    /\ DOMAIN write_safety = GuardPaths \ {WritePath(call.params)}
    /\ dedup_log # << >>

\* C27: a call tool_dedup_guard refuses leaves dedup_log as it is, so the
\* rows of the log are the accepted calls and a duplicate is blocked from the
\* time of the last of them; tool_dedup_guard and clear_dedup_log leave
\* write_safety as it is.
C27_RefusedCallNotLogged ==
    [][/\ (IsGuardStep /\ result'.safe = FALSE) =>
            /\ dedup_log' = dedup_log
            /\ result'.last_called # None =>
                  LET recent == LoggedWithin(call'.tool_name, call'.params,
                                             call'.ttl_seconds, call'.now)
                  IN \E latest \in recent :
                        /\ result'.last_called = Some(latest)
                        /\ \A timestamp \in recent : timestamp <= latest
       /\ (IsGuardStep /\ result'.safe = TRUE) =>
            dedup_log'[Len(dedup_log')].timestamp = now'
       /\ (call = NoCall /\ call'.op \in {"tool_dedup_guard", "clear_dedup_log"}) =>
            write_safety' = write_safety]_vars

\* a duplicate was refused after the call it repeats was accepted, with a
\* path registered, and the log still holds that one row
C27_Witness ==
    /\ call.op = "tool_dedup_guard"
    /\ result.safe = FALSE
    /\ result.last_called # None
    /\ Len(dedup_log) = 1
    /\ result.last_called = Some(dedup_log[1].timestamp)
    /\ dedup_log[1].timestamp < now
    /\ write_safety # << >>

-----------------------------------------------------------------------------
(* The memory pruner (tools/prune_memory.py).                              *)
(*                                                                         *)
(* The memory file and the archives are files of the file system, fs: a    *)
(* path is in its domain when the file exists, and the content is the text *)
(* read_text gives.  The directories of the paths written exist.  The      *)
(* ticks of the clock all fall on one day.  prune_memory takes the file    *)
(* system and the clock and returns [ret |-> the returned dict, fs |-> the *)
(* file system left].                                                      *)

\* Path("memory-bank/progress.md")
MemoryFile == "memory-bank/progress.md"

\* the characters str.splitlines ends a line at, of those a string here holds
LineBreaks == {"\n", "\r", "\f"}

\* the length of the first line of s, its line break included
RECURSIVE FirstLineLen(_, _)
FirstLineLen(s, i) ==
    IF i > Len(s) THEN Len(s)
    ELSE IF Char(s, i) = "\r" /\ i < Len(s) /\ Char(s, i + 1) = "\n" THEN i + 1
    ELSE IF Char(s, i) \in LineBreaks THEN i
    ELSE FirstLineLen(s, i + 1)

\* s.splitlines(keepends=True)
RECURSIVE splitlines(_)
splitlines(s) ==
    IF s = "" THEN << >>
    ELSE LET n == FirstLineLen(s, 1)
         IN <<Take(s, n)>> \o splitlines(Drop(s, n))

\* datetime.now().strftime('%Y-%m-%d')
DateOf(t) == "2024-01-01"

\* datetime.now().isoformat()
IsoFormat(t) == DateOf(t) \o "T00:00:0" \o ToString(t)

\* open(path, "a") and the writes: text is put after the content of the file
AppendText(fs, path, text) ==
    [p \in DOMAIN fs \cup {path} |->
        IF p = path
        THEN Some((IF path \in DOMAIN fs THEN fs[path][1] ELSE "") \o text)
        ELSE fs[p]]

\* Path(path).write_text(text)
WriteText(fs, path, text) ==
    [p \in DOMAIN fs \cup {path} |-> IF p = path THEN Some(text) ELSE fs[p]]

\* prune_memory(count, archive, archive_path) -> dict
prune_memory(fs, count, archive, archive_path, t) ==
    IF MemoryFile \notin DOMAIN fs
    THEN [ret |-> [status |-> "success", pruned |-> 0, remaining |-> 0,
                   archived_to |-> None],
          fs |-> WriteText(fs, MemoryFile, "")]
    ELSE LET lines == splitlines(fs[MemoryFile][1])
         IN IF lines = << >> \/ count <= 0
            THEN [ret |-> [status |-> "success", pruned |-> 0,
                           remaining |-> Len(lines), archived_to |-> None],
                  fs |-> fs]
            ELSE LET pruned_lines == Take(lines, Min(count, Len(lines)))
                     remaining_lines == Drop(lines, Min(count, Len(lines)))
                     archives == archive /\ pruned_lines # << >>
                     archive_file ==
                         IF Truthy(archive_path) THEN archive_path[1]
                         ELSE "memory-bank/archive/" \o DateOf(t) \o ".md"
                     archived ==
                         IF archives
                         THEN AppendText(fs, archive_file,
                                  "\n---\n# Pruned on " \o IsoFormat(t) \o "\n"
                                  \o Join(pruned_lines, ""))
                         ELSE fs
                 IN [ret |-> [status |-> "success",
                              pruned |-> Len(pruned_lines),
                              remaining |-> Len(remaining_lines),
                              archived_to |-> IF archives THEN Some(archive_file)
                                              ELSE None],
                     fs |-> WriteText(archived, MemoryFile,
                                      Join(remaining_lines, ""))]

-----------------------------------------------------------------------------
(* SpecPrune: a session in which lines are written to the memory file and  *)
(* prune_memory is called.                                                 *)

\* most lines of the memory file
MaxLines == 3

\* most lines an archive holds when lines are added to it
MaxArchive == 5

\* the memory file at the start: missing, empty, with a last line that is
\* not ended, and with a form feed in a line
MemoryTexts == {None, Some(""), Some("Line 1\nLine 2"), Some("Task 1\fTask 2\n")}

\* the lines written to the memory file
MemoryLines == {"Line 1\n", "Task 1\n"}

\* the values of count
Counts == {-1, 0, 1, 2, 5}

\* the values of archive_path: the default, a file of its own, and the
\* memory file itself
ArchivePaths == {None, Some("archive.md"), Some(MemoryFile)}

InitPrune ==
    /\ custom_prompts = << >>
    /\ usage_log = 0
    /\ \E text \in MemoryTexts, old \in {None, Some("old\n")} :
          files = (IF text = None THEN << >> ELSE (MemoryFile :> text))
                  @@ (IF old = None THEN << >> ELSE ("archive.md" :> old))
    /\ EmbeddingsIdle
    /\ QueueIdle
    /\ GuardIdle
    /\ LoaderIdle
    /\ contents = << >>
    /\ separator = DefaultSeparator
    /\ call = NoCall
    /\ result = NoResult

\* a line is written at the end of the memory file
WriteProgress(line) ==
    /\ call = NoCall
    /\ MemoryFile \in DOMAIN files
    /\ Len(splitlines(files[MemoryFile][1])) < MaxLines
    /\ files' = AppendText(files, MemoryFile, line)
    /\ UNCHANGED <<custom_prompts, usage_log, contents, separator, embed_vars,
                   queue_vars, guard_vars, loader_vars, call, result>>

PruneMemory(count, archive, archive_path) ==
    /\ call = NoCall
    /\ \A p \in DOMAIN files \ {MemoryFile} :
          Len(splitlines(files[p][1])) < MaxArchive
    /\ LET out == prune_memory(files, count, archive, archive_path, now)
       IN /\ files' = out.fs
          /\ result' = out.ret
    /\ call' = [op |-> "prune_memory", count |-> count, archive |-> archive,
                archive_path |-> archive_path]
    /\ UNCHANGED <<custom_prompts, usage_log, contents, separator, embed_vars,
                   queue_vars, guard_vars, loader_vars>>

NextPrune ==
    \/ \E line \in MemoryLines : WriteProgress(line)
    \/ \E count \in Counts, archive \in BOOLEAN, archive_path \in ArchivePaths :
            PruneMemory(count, archive, archive_path)
    \/ Return

SpecPrune == InitPrune /\ [][NextPrune]_vars

-----------------------------------------------------------------------------
(* Memory pruner: properties (SpecPrune).                                  *)

\* the step is a call of prune_memory on a memory file that exists
IsPruneStep ==
    call = NoCall /\ call'.op = "prune_memory" /\ MemoryFile \in DOMAIN files

\* the lines of the memory file
MemoryLinesOf(fs) == splitlines(fs[MemoryFile][1])

\* new is old with text put after it, and ends with the text added
EndsWithAfter(new, old, added) ==
    /\ Take(new, Len(old)) = old
    /\ Len(new) >= Len(old) + Len(added)
    /\ Drop(new, Len(new) - Len(added)) = added

\* C23: prune_memory with count > 0 removes the first min(count, n) of the n
\* lines of the memory file, keeps the others as they are and in order, and
\* reports pruned and remaining so; with archive=True the lines removed stand
\* in order at the end of the archive, after what it held before; with
\* count <= 0 the memory file stays as it is.
C23_PruneConservesLines ==
    [][IsPruneStep =>
          LET lines == MemoryLinesOf(files)
              n == Len(lines)
              pruned == Min(call'.count, n)
          IN IF call'.count <= 0
             THEN files'[MemoryFile] = files[MemoryFile]
             ELSE /\ result'.pruned = pruned
                  /\ result'.remaining = n - pruned
                  /\ MemoryLinesOf(files') = Drop(lines, pruned)
                  /\ (call'.archive /\ pruned > 0) =>
                        /\ result'.archived_to # None
                        /\ LET archive_file == result'.archived_to[1]
                           IN EndsWithAfter(
                                  files'[archive_file][1],
                                  IF archive_file \in DOMAIN files
                                  THEN files[archive_file][1] ELSE "",
                                  Join(Take(lines, pruned), ""))]_vars

-----------------------------------------------------------------------------
(* The prompt loader (tools/prompt_loader.py).                             *)
(*                                                                         *)
(* The cache _loaded_prompts is a dict: the sequence of its values in      *)
(* insertion order, each carrying its key as id.  The texts are ASCII, so  *)
(* a file has as many bytes as characters; size_kb is kept in bytes, that  *)
(* is in 1/1024 KB.  The default emoji is written "[page]".  load_prompt   *)
(* and get_load_stats take the session and the file system, as             *)
(* s = [loaded, history, files, now], and return [ret |-> the returned     *)
(* dict, s |-> the session left].                                          *)

\* TOKEN_RATIO, in hundredths
LOADER_TOKEN_RATIO_PERCENT == 25

\* the emoji of a prompt that names none
DefaultEmoji == "[page]"

\* the characters \w matches
WordChars == UpperCase \o LowerCase \o "0123456789_"

IsWordChar(c) == \E i \in 1..Len(WordChars) : Char(WordChars, i) = c

\* s[i-1:].startswith(prefix)
StartsWithAt(s, i, prefix) ==
    i + Len(prefix) - 1 <= Len(s) /\ SubSeq(s, i, i + Len(prefix) - 1) = prefix

\* the end of the longest run of word characters of s that starts at place i
\* (i - 1 when there is none)
RECURSIVE WordEnd(_, _)
WordEnd(s, i) ==
    IF i <= Len(s) /\ IsWordChar(Char(s, i)) THEN WordEnd(s, i + 1) ELSE i - 1

\* (.+?) -->, matched from place i: the end of the shortest run of one or
\* more characters other than a line feed that " -->" follows, or 0
RECURSIVE LazyEnd(_, _, _)
LazyEnd(s, i, j) ==
    IF j > Len(s) \/ Char(s, j) = "\n" THEN 0
    ELSE IF StartsWithAt(s, j + 1, " -->") THEN j
    ELSE LazyEnd(s, i, j + 1)

\* re.search(r'<!-- id:(\w+) emoji:(.+?) -->', content): both groups, or None
RECURSIVE HeaderMatch(_, _)
HeaderMatch(content, i) ==
    IF i > Len(content) THEN None
    ELSE LET w == WordEnd(content, i + 8)
             e == LazyEnd(content, w + 8, w + 8)
         IN IF /\ StartsWithAt(content, i, "<!-- id:")
               /\ w >= i + 8
               /\ StartsWithAt(content, w + 1, " emoji:")
               /\ e > 0
            THEN Some(<<SubSeq(content, i + 8, w), SubSeq(content, w + 8, e)>>)
            ELSE HeaderMatch(content, i + 1)

\* re.search(r'<!-- id:(\w+)', content): the group, or None
RECURSIVE IdMatch(_, _)
IdMatch(content, i) ==
    IF i > Len(content) THEN None
    ELSE IF StartsWithAt(content, i, "<!-- id:") /\ WordEnd(content, i + 8) >= i + 8
    THEN Some(SubSeq(content, i + 8, WordEnd(content, i + 8)))
    ELSE IdMatch(content, i + 1)

\* re.search(r'emoji:(.+?) -->', content): the group, or None
RECURSIVE EmojiMatch(_, _)
EmojiMatch(content, i) ==
    IF i > Len(content) THEN None
    ELSE IF StartsWithAt(content, i, "emoji:") /\ LazyEnd(content, i + 6, i + 6) > 0
    THEN Some(SubSeq(content, i + 6, LazyEnd(content, i + 6, i + 6)))
    ELSE EmojiMatch(content, i + 1)

\* parse_prompt_header(content) -> (id, emoji)
parse_prompt_header(content) ==
    LET header_match == HeaderMatch(content, 1)
    IN IF header_match # None
       THEN <<Some(header_match[1][1]), Some(header_match[1][2])>>
       ELSE <<IdMatch(content, 1), EmojiMatch(content, 1)>>

\* estimate_tokens(text) of the loader
loader_estimate_tokens(text) == (Len(text) * LOADER_TOKEN_RATIO_PERCENT) \div 100

\* s.endswith(suffix)
EndsWith(s, suffix) ==
    Len(s) >= Len(suffix) /\ Drop(s, Len(s) - Len(suffix)) = suffix

\* Path("prompts").rglob("*.md") without the files named README.md
PromptFiles(fs) ==
    {p \in DOMAIN fs : /\ StartsWith(p, "prompts/")
                       /\ EndsWith(p, ".md")
                       /\ ~EndsWith(p, "/README.md")}

\* the files whose header names prompt_id
MatchingFiles(fs, prompt_id) ==
    {p \in PromptFiles(fs) : parse_prompt_header(fs[p][1])[1] = Some(prompt_id)}

\* the place of prompt_id in the cache, or 0
CacheIndex(loaded, prompt_id) ==
    IF \E i \in DOMAIN loaded : loaded[i].id = prompt_id
    THEN CHOOSE i \in DOMAIN loaded : loaded[i].id = prompt_id
    ELSE 0

\* _loaded_prompts[prompt_id] = data
CachePut(loaded, prompt_id, data) ==
    IF CacheIndex(loaded, prompt_id) = 0 THEN Append(loaded, data)
    ELSE [loaded EXCEPT ![CacheIndex(loaded, prompt_id)] = data]


\* the prompt data load_prompt builds from the file at file_path
PromptData(s, prompt_id, file_path) ==
    LET content == s.files[file_path][1]
        emoji == parse_prompt_header(content)[2]
    IN [id |-> prompt_id,
        emoji |-> IF Truthy(emoji) THEN emoji[1] ELSE DefaultEmoji,
        content |-> content,
        tokens |-> loader_estimate_tokens(content),
        size_kb |-> Len(content),
        path |-> file_path,
        loaded_at |-> s.now,
        echo_required |-> TRUE,
        from_cache |-> FALSE]

\* a load_prompt that reads the file again whenever it is called
load_prompt_uncached(s, prompt_id, force_reload) ==
    LET matching_files == MatchingFiles(s.files, prompt_id)
    IN IF matching_files = {}
       THEN [ret |-> [error |-> "Prompt with id '" \o prompt_id \o "' not found",
                      searched_in |-> "prompts"],
             s |-> s]
       ELSE LET prompt_data ==
                    PromptData(s, prompt_id, CHOOSE p \in matching_files : TRUE)
            IN [ret |-> prompt_data,
                s |-> [s EXCEPT
                         !.loaded = CachePut(s.loaded, prompt_id, prompt_data),
                         !.history = Append(s.history,
                                        [prompt_id |-> prompt_id,
                                         tokens |-> prompt_data.tokens,
                                         timestamp |-> prompt_data.loaded_at])]]

\* load_prompt(prompt_id, force_reload) -> dict
\* (no two files of the model name the same id, so the first file the scan
\* finds is the only one)
load_prompt(s, prompt_id, force_reload) ==
    IF CacheIndex(s.loaded, prompt_id) # 0 /\ ~force_reload
    THEN LET i == CacheIndex(s.loaded, prompt_id)
             prompt_data == [s.loaded[i] EXCEPT !.from_cache = TRUE]
         IN [ret |-> prompt_data,
             s |-> [s EXCEPT !.loaded = [s.loaded EXCEPT ![i] = prompt_data]]]
    ELSE LET matching_files == MatchingFiles(s.files, prompt_id)
         IN IF matching_files = {}
            THEN [ret |-> [error |-> "Prompt with id '" \o prompt_id \o "' not found",
                           searched_in |-> "prompts"],
                  s |-> s]
            ELSE LET file_path == CHOOSE p \in matching_files : TRUE
                     found_id == parse_prompt_header(s.files[file_path][1])[1]
                     prompt_data == PromptData(s, prompt_id, file_path)
                 IN IF found_id # Some(prompt_id)
                    THEN [ret |-> [error |-> "ID mismatch", file |-> file_path],
                          s |-> s]
                    ELSE [ret |-> prompt_data,
                          s |-> [s EXCEPT
                                   !.loaded = CachePut(s.loaded, prompt_id, prompt_data),
                                   !.history = Append(s.history,
                                                  [prompt_id |-> prompt_id,
                                                   tokens |-> prompt_data.tokens,
                                                   timestamp |-> prompt_data.loaded_at])]]

\* sum(p["tokens"] for p in loaded_list)
RECURSIVE SumTokens(_)
SumTokens(loaded_list) ==
    IF loaded_list = << >> THEN 0
    ELSE loaded_list[1].tokens + SumTokens(Tail(loaded_list))

\* sum(1 for h in _load_history if h.get("from_cache", False))
CacheHits(history) ==
    Cardinality({i \in DOMAIN history :
                    "from_cache" \in DOMAIN history[i] /\ history[i].from_cache})

\* s[-n:]
Last(s, n) == SubSeq(s, Len(s) - Min(n, Len(s)) + 1, Len(s))

\* get_load_stats() -> dict
get_load_stats(s) ==
    LET loaded_list == [i \in DOMAIN s.loaded |->
                           [id |-> s.loaded[i].id,
                            emoji |-> s.loaded[i].emoji,
                            tokens |-> s.loaded[i].tokens,
                            size_kb |-> s.loaded[i].size_kb,
                            loaded_at |-> s.loaded[i].loaded_at]]
        cache_hits == CacheHits(s.history)
    IN [ret |-> [loaded_prompts |-> loaded_list,
                 total_loaded |-> Len(s.loaded),
                 total_tokens |-> SumTokens(loaded_list),
                 load_history |-> Last(s.history, 10),
                 cache_hits |-> cache_hits,
                 session_start |-> IF s.history # << >>
                                   THEN Some(s.history[1].timestamp) ELSE None],
        s |-> s]

-----------------------------------------------------------------------------
(* SpecLoader: a session of calls of load_prompt and get_load_stats, while *)
(* the prompt files are edited and removed.  Every load that reads the     *)
(* clock gets a tick of its own.                                           *)

\* most entries of the load history
MaxLoads == 3

\* most characters added to a prompt file
MaxEdits == 1

\* the prompt files: one with id and emoji, one with an id only, and a
\* README.md, which the scan skips
LoaderFiles ==
    ("prompts/axioms/CORE.md" :> Some("<!-- id:CORE emoji:@ -->\nA"))
    @@ ("prompts/test.md" :> Some("<!-- id:TEST -->\nT"))
    @@ ("prompts/README.md" :> Some("<!-- id:README emoji:R -->"))

\* the ids asked for
PromptIds == {"CORE", "TEST", "README", "NONE"}

\* the session and the file system the loader works on
Session == [loaded |-> loaded_prompts, history |-> load_history,
            files |-> files, now |-> now]

InitLoader ==
    /\ custom_prompts = << >>
    /\ usage_log = 0
    /\ files = LoaderFiles
    /\ EmbeddingsIdle
    /\ QueueIdle
    /\ GuardIdle
    /\ contents = << >>
    /\ separator = DefaultSeparator
    /\ call = NoCall
    /\ result = NoResult
    /\ loaded_prompts = << >>
    /\ load_history = << >>

LoadPrompt(prompt_id, force_reload) ==
    /\ call = NoCall
    /\ Len(load_history) < MaxLoads
    /\ LET out == load_prompt(Session, prompt_id, force_reload)
       IN /\ loaded_prompts' = out.s.loaded
          /\ load_history' = out.s.history
          /\ files' = out.s.files
          /\ now' = IF load_history' # load_history THEN now + 1 ELSE now
          /\ result' = out.ret
    /\ call' = [op |-> "load_prompt", prompt_id |-> prompt_id,
                force_reload |-> force_reload]
    /\ UNCHANGED <<custom_prompts, usage_log, contents, separator, embed_vars,
                   progress_queue, guard_vars>>

GetLoadStats ==
    /\ call = NoCall
    /\ LET out == get_load_stats(Session)
       IN /\ loaded_prompts' = out.s.loaded
          /\ load_history' = out.s.history
          /\ result' = out.ret
    /\ call' = [op |-> "get_load_stats"]
    /\ UNCHANGED <<custom_prompts, usage_log, files, contents, separator,
                   embed_vars, queue_vars, guard_vars>>

\* a prompt file is edited: a character is added at its end
EditPrompt(file_path) ==
    /\ call = NoCall
    /\ file_path \in DOMAIN files
    /\ Len(files[file_path][1]) < Len(LoaderFiles[file_path][1]) + MaxEdits
    /\ files' = WriteText(files, file_path, files[file_path][1] \o "B")
    /\ UNCHANGED <<custom_prompts, usage_log, contents, separator, embed_vars,
                   queue_vars, guard_vars, loader_vars, call, result>>

\* a prompt file is removed
RemovePrompt(file_path) ==
    /\ call = NoCall
    /\ file_path \in DOMAIN files
    /\ files' = [p \in DOMAIN files \ {file_path} |-> files[p]]
    /\ UNCHANGED <<custom_prompts, usage_log, contents, separator, embed_vars,
                   queue_vars, guard_vars, loader_vars, call, result>>

NextLoader ==
    \/ \E prompt_id \in PromptIds, force_reload \in BOOLEAN :
            LoadPrompt(prompt_id, force_reload)
    \/ GetLoadStats
    \/ \E file_path \in PromptFiles(LoaderFiles) : EditPrompt(file_path)
    \/ \E file_path \in PromptFiles(LoaderFiles) : RemovePrompt(file_path)
    \/ Return

SpecLoader == InitLoader /\ [][NextLoader]_vars

-----------------------------------------------------------------------------
(* Prompt loader: properties (SpecLoader).                                 *)

\* the step is a call of load_prompt
IsLoadPromptStep == call = NoCall /\ call'.op = "load_prompt"

\* the ids the cache holds
CachedIds(loaded) == {loaded[i].id : i \in DOMAIN loaded}

\* the call returned an error
Failed(ret) == "error" \in DOMAIN ret

\* C24: load_prompt of a cached id without force_reload returns the cached
\* data with from_cache=True and adds nothing to the load history; with
\* force_reload it reads the file as it is now, puts that in the place of the
\* cache entry and returns from_cache=False; a load that fails changes
\* neither cache nor history; a successful load leaves the id cached, and no
\* id ever leaves the cache.
C24_CachePerPromptId ==
    [][IsLoadPromptStep =>
          LET prompt_id == call'.prompt_id
              i == CacheIndex(loaded_prompts, prompt_id)
          IN /\ (i # 0 /\ ~call'.force_reload) =>
                   /\ result' = [loaded_prompts[i] EXCEPT !.from_cache = TRUE]
                   /\ load_history' = load_history
                   /\ CachedIds(loaded_prompts') = CachedIds(loaded_prompts)
             /\ (call'.force_reload /\ ~Failed(result')) =>
                   /\ result'.from_cache = FALSE
                   /\ result'.id = prompt_id
                   /\ result'.path \in DOMAIN files
                   /\ result'.content = files[result'.path][1]
                   /\ loaded_prompts'[CacheIndex(loaded_prompts', prompt_id)] = result'
                   /\ \A j \in DOMAIN loaded_prompts' :
                         loaded_prompts'[j].id # prompt_id =>
                            /\ j \in DOMAIN loaded_prompts
                            /\ loaded_prompts'[j] = loaded_prompts[j]
             /\ Failed(result') =>
                   /\ loaded_prompts' = loaded_prompts
                   /\ load_history' = load_history
             /\ ~Failed(result') => prompt_id \in CachedIds(loaded_prompts')
             /\ CachedIds(loaded_prompts) \subseteq CachedIds(loaded_prompts')]_vars

\* a load was served from the cache after the prompt had been loaded, edited
\* and loaded again with force_reload, and its file had then been removed
C24_Witness ==
    /\ call.op = "load_prompt"
    /\ ~call.force_reload
    /\ ~Failed(result)
    /\ result.from_cache = TRUE
    /\ result.path \notin DOMAIN files
    /\ result.content # LoaderFiles[result.path][1]
    /\ Len(load_history) = 2
    /\ \A i \in DOMAIN load_history : load_history[i].prompt_id = call.prompt_id

\* C25: get_load_stats reports as cache_hits the number of load_prompt calls
\* served from the cache, so the number it reports is 0 before any load and
\* one more after each such call, and as total_loaded the number of distinct
\* ids loaded successfully.
C25_StatsCountSessionLoads ==
    [][/\ (IsLoadPromptStep /\ ~Failed(result') /\ result'.from_cache) =>
            get_load_stats(Session').ret.cache_hits =
                get_load_stats(Session).ret.cache_hits + 1
       /\ (IsLoadPromptStep /\ (Failed(result') \/ ~result'.from_cache)) =>
            get_load_stats(Session').ret.cache_hits =
                get_load_stats(Session).ret.cache_hits
       /\ (call = NoCall /\ call'.op = "get_load_stats") =>
            /\ result'.total_loaded =
                  Cardinality({load_history[i].prompt_id : i \in DOMAIN load_history})
            /\ load_history = << >> => result'.cache_hits = 0]_vars

-----------------------------------------------------------------------------
(* Discovery and smart composition (tools/embeddings_manager.py).          *)
(*                                                                         *)
(* The operations take the registry, st, and the embeddings manager, as    *)
(* m = [rows, auto_indexed, model], and return [raised |-> None or the     *)
(* exception that left the call, ret |-> the returned dict, st |-> the     *)
(* registry left, m |-> the manager left].  A similarity find_similar      *)
(* gives is a float of the embeddings manager; one that round(..., 3)      *)
(* rounded, and every other decimal number, is in millionths.  The         *)
(* installation is one without the package sentence_transformers, as the   *)
(* repository's tests run: HAS_SENTENCE_TRANSFORMERS is False, the model   *)
(* of the manager is None, and generate_embedding gives the fallback,      *)
(* which reads the embedding off the SHA-256 digest of the text.  hashlib  *)
(* is no part of the repository: a table gives the digests of the texts    *)
(* used.                                                                   *)

\* sub in s
Contains(s, sub) ==
    \E i \in 1..(Len(s) - Len(sub) + 1) : SubSeq(s, i, i + Len(sub) - 1) = sub

\* s.split('\n')
RECURSIVE SplitLinesOn(_, _)
SplitLinesOn(s, acc) ==
    IF s = "" THEN <<acc>>
    ELSE IF Char(s, 1) = "\n" THEN <<acc>> \o SplitLinesOn(Drop(s, 1), "")
    ELSE SplitLinesOn(Drop(s, 1), acc \o Char(s, 1))

\* repr of a list of names
ListRepr(names) ==
    "[" \o Join([i \in DOMAIN names |-> "'" \o names[i] \o "'"], ", ") \o "]"

\* the loop of _extract_description over the lines
RECURSIVE FirstContentLine(_, _)
FirstContentLine(lines, max_length) ==
    IF lines = << >> THEN "No description available"
    ELSE LET line == Strip(lines[1])
         IN IF line # "" /\ ~StartsWith(line, "#") /\ ~StartsWith(line, "<!--")
            THEN (IF Len(line) > max_length THEN Take(line, max_length) \o "..."
                  ELSE line)
            ELSE FirstContentLine(Tail(lines), max_length)

\* _extract_description(content, max_length) -> str
extract_description(content, max_length) ==
    FirstContentLine(SplitLinesOn(Strip(content), ""), max_length)

\* np.rint(scaled) / 10^3, in millionths, of a float below 2^31 in size
ThousandthsOf(scaled) ==
    1000 * scaled.sign * WholeOf(DigitsRint(scaled.mantissa, FALSE, 0 - scaled.exponent))

\* round(similarity, 3), in millionths, of the np.float64 cosine_similarity
\* returns: numpy multiplies by 10^3, takes the nearest whole number, the
\* even one of two as near, and divides by 10^3
RoundTo3(similarity) ==
    IF similarity.sign = 0 THEN 0
    ELSE ThousandthsOf(FloatTimes(similarity, FloatOf(1000, 1)))

\* find_similar(query_embedding, top_k, min_similarity), in one step;
\* cosine_similarity raises ValueError at a row whose embedding has another
\* length than query_embedding
find_similar(m, query_embedding, top_k, min_similarity) ==
    IF ~m.auto_indexed /\ Len(m.rows) = 0
    THEN [raised |-> Some(do_index(m.rows).raised), results |-> << >>, m |-> m]
    ELSE IF \E i \in DOMAIN m.rows :
                ~ShapesAligned(query_embedding, m.rows[i].embedding)
    THEN [raised |-> Some("ValueError"), results |-> << >>,
          m |-> [m EXCEPT !.auto_indexed = TRUE]]
    ELSE [raised |-> None,
          results |-> SelectSimilarRows(m.rows, query_embedding, top_k,
                                        min_similarity),
          m |-> [m EXCEPT !.auto_indexed = TRUE]]

\* search_prompts: the loop over the matches; acc holds the registry, the
\* results, the principles and the workflows so far
RECURSIVE EnrichLoop(_, _)
EnrichLoop(acc, similar) ==
    IF similar = << >> \/ acc.raised # None THEN acc
    ELSE LET match == similar[1]
             got == get_prompt(acc.st, match.prompt_id)
             prompt_data == got.ret
         IN IF "content" \notin DOMAIN prompt_data
            THEN [acc EXCEPT !.raised = Some("KeyError"), !.st = got.st]
            ELSE EnrichLoop(
                   [raised |-> None,
                    st |-> got.st,
                    results |-> Append(acc.results,
                        [name |-> match.prompt_id,
                         similarity |-> RoundTo3(match.similarity),
                         type |-> IF "type" \in DOMAIN prompt_data
                                  THEN prompt_data.type ELSE "unknown",
                         description |-> extract_description(prompt_data.content, 150),
                         tokens |-> IF "tokens" \in DOMAIN prompt_data
                                    THEN prompt_data.tokens ELSE 0]),
                    principles |-> IF Contains(prompt_data.content, "principle")
                                   THEN Append(acc.principles, match.prompt_id)
                                   ELSE acc.principles,
                    workflows |-> IF /\ ~Contains(prompt_data.content, "principle")
                                     /\ Contains(prompt_data.content, "workflow")
                                  THEN Append(acc.workflows, match.prompt_id)
                                  ELSE acc.workflows],
                   Tail(similar))

\* search_prompts after its loop over the matches, which left acc
SearchEnriched(query, found, acc) ==
    IF acc.raised # None
    THEN [raised |-> acc.raised, ret |-> << >>, st |-> acc.st, m |-> found.m]
    ELSE [raised |-> None,
          ret |-> [query |-> query,
                   results |-> acc.results,
                   suggested_principles |-> Take(acc.principles, 3),
                   suggested_workflows |-> Take(acc.workflows, 2),
                   tip |-> "Load these with: load_prompts("
                           \o ListRepr([i \in DOMAIN Take(acc.results, 3)
                                           |-> acc.results[i].name])
                           \o ")"],
          st |-> acc.st, m |-> found.m]

\* search_prompts after its call of find_similar, which left found
SearchFound(st, query, found) ==
    IF found.raised # None
    THEN [raised |-> found.raised, ret |-> << >>, st |-> st, m |-> found.m]
    ELSE IF found.results = << >>
    THEN [raised |-> None,
          ret |-> [results |-> << >>,
                   message |-> "No similar prompts found. Try a different query or use list_available()"],
          st |-> st, m |-> found.m]
    ELSE SearchEnriched(query, found,
                        EnrichLoop([raised |-> None, st |-> st, results |-> << >>,
                                    principles |-> << >>, workflows |-> << >>],
                                   found.results))

\* search_prompts after its call of generate_embedding, which gave
\* query_embedding
SearchEmbedded(st, m, query, top_k, min_similarity, query_embedding) ==
    IF query_embedding = << >>
    THEN [raised |-> None,
          ret |-> [error |-> "Failed to generate query embedding",
                   fallback |-> "Use list_available() to browse prompts manually"],
          st |-> st, m |-> m]
    ELSE SearchFound(st, query,
                     find_similar(m, query_embedding, top_k, min_similarity))

\* search_prompts(query, top_k, min_similarity) -> dict
search_prompts(st, m, query, top_k, min_similarity) ==
    SearchEmbedded(st, m, query, top_k, min_similarity,
                   generate_embedding(m.model, query))

\* discover_prompts: the principles, or the workflows, among the results
\* with a similarity above 0.4
RecommendedAs(results, kind, field) ==
    LET chosen == SelectSeq(results, LAMBDA r :
                      /\ r.similarity > 400000
                      /\ IF kind = "principle" THEN Contains(r.type, "principle")
                         ELSE /\ ~Contains(r.type, "principle")
                              /\ Contains(r.type, "workflow"))
    IN [i \in DOMAIN chosen |->
           (field :> (Take(chosen[i].description, 100) \o "..."))
           @@ [name |-> chosen[i].name, relevance |-> chosen[i].similarity]]

\* discover_prompts: the recommendations built of the principles and workflows
Recommendations(task_description, principles, workflows) ==
    LET bootstrap_prompts ==
            [i \in DOMAIN Take(principles, 2) |-> principles[i].name]
            \o (IF workflows # << >> THEN <<workflows[1].name>> ELSE << >>)
        insight ==
            IF principles = << >> /\ workflows = << >>
            THEN "No highly relevant prompts found. Consider saving a custom prompt for this task type."
            ELSE IF workflows = << >>
            THEN "Found guiding principles but no specific workflows. You might want to create a workflow for this task."
            ELSE IF principles = << >>
            THEN "Found workflows but consider loading principles first for best practices."
            ELSE "Found both principles and workflows. Use the suggested command to load them together."
        recommendations ==
            [task |-> task_description,
             recommended_principles |-> Take(principles, 3),
             recommended_workflows |-> Take(workflows, 2),
             suggested_bootstrap |-> IF principles # << >> THEN bootstrap_prompts
                                     ELSE << >>,
             insight |-> insight]
    IN IF principles # << >>
       THEN recommendations
            @@ [command |-> "compose_prompts(" \o ListRepr(bootstrap_prompts) \o ")"]
       ELSE recommendations

\* discover_prompts after its call of search_prompts, which left searched
DiscoverSearched(task_description, searched) ==
    IF searched.raised # None \/ "error" \in DOMAIN searched.ret
    THEN searched
    ELSE [searched EXCEPT !.ret =
             Recommendations(
                 task_description,
                 RecommendedAs(IF "results" \in DOMAIN searched.ret
                               THEN searched.ret.results ELSE << >>,
                               "principle", "why"),
                 RecommendedAs(IF "results" \in DOMAIN searched.ret
                               THEN searched.ret.results ELSE << >>,
                               "workflow", "what"))]

\* discover_prompts(task_description) -> dict
discover_prompts(st, m, task_description) ==
    DiscoverSearched(task_description,
                     search_prompts(st, m, task_description, 10, 200000))

\* sum(relevance_scores.values()), of the (name, score) items
RECURSIVE SumScores(_)
SumScores(scores) ==
    IF scores = << >> THEN 0 ELSE scores[1][2] + SumScores(Tail(scores))

\* _explain_selection(components) -> str
explain_selection(components) ==
    LET high == SelectSeq(components.relevance_scores, LAMBDA item : item[2] > 700000)
        explanations ==
            (IF components.principles # << >>
             THEN <<"Selected " \o ToString(Len(components.principles))
                    \o " principles for best practices and methodology">>
             ELSE << >>)
            \o (IF components.workflows # << >>
                THEN <<"Selected " \o ToString(Len(components.workflows))
                       \o " workflow(s) for task-specific guidance">>
                ELSE << >>)
            \o (IF high # << >>
                THEN <<"Particularly relevant: "
                       \o Join([i \in DOMAIN high |-> high[i][1]], ", ")>>
                ELSE << >>)
    IN IF explanations # << >> THEN Join(explanations, ". ")
       ELSE "Selected based on relevance to task"

\* compose_smart: prompts_to_load and selected_components, of the discovery
SelectComponents(discovery, include_principles, include_workflows) ==
    LET principles == IF include_principles /\ "recommended_principles" \in DOMAIN discovery
                      THEN Take(discovery.recommended_principles, 2) ELSE << >>
        workflows == IF include_workflows /\ "recommended_workflows" \in DOMAIN discovery
                     THEN Take(discovery.recommended_workflows, 1) ELSE << >>
        chosen == principles \o workflows
    IN [prompts_to_load |-> [i \in DOMAIN chosen |-> chosen[i].name],
        selected_components |->
            [principles |-> [i \in DOMAIN principles |-> principles[i].name],
             workflows |-> [i \in DOMAIN workflows |-> workflows[i].name],
             relevance_scores |-> [i \in DOMAIN chosen |->
                                      <<chosen[i].name, chosen[i].relevance>>]]]

\* compose_smart after its call of compose_prompts, which left composed;
\* average_relevance is the quotient sum / len, in millionths, kept as the
\* two numbers
SmartComposed(task_description, m, selected_components, composed) ==
    LET usage_tip ==
            IF selected_components.principles # << >>
               /\ selected_components.workflows # << >>
            THEN "Loaded both principles and workflows. The principles will guide your approach while the workflow provides specific steps."
            ELSE IF selected_components.principles # << >>
            THEN "Loaded guiding principles. Consider your specific implementation approach for this task."
            ELSE "Loaded task workflow. Follow the steps while keeping best practices in mind."
    IN [raised |-> None,
        ret |-> IF "error" \in DOMAIN composed.ret THEN composed.ret
                ELSE composed.ret
                     @@ [smart_metadata |->
                            [task |-> task_description,
                             selected_components |-> selected_components,
                             selection_reasoning |->
                                 explain_selection(selected_components),
                             average_relevance |->
                                 [sum |-> SumScores(selected_components.relevance_scores),
                                  len |-> Len(selected_components.relevance_scores)]],
                         usage_tip |-> usage_tip],
        st |-> composed.st,
        m |-> m]

\* compose_smart after its call of discover_prompts, which left discovered
\* and of which selected is chosen
SmartDiscovered(task_description, max_tokens, discovered, selected) ==
    IF discovered.raised # None \/ "error" \in DOMAIN discovered.ret
    THEN discovered
    ELSE IF selected.prompts_to_load = << >>
    THEN [discovered EXCEPT !.ret =
             [error |-> "No relevant prompts found for task",
              task |-> task_description,
              suggestion |-> "Try a more specific task description or browse with list_available()"]]
    ELSE SmartComposed(task_description, discovered.m,
                       selected.selected_components,
                       compose_prompts(discovered.st, selected.prompts_to_load,
                                       TRUE, max_tokens, DefaultSeparator))

\* the selection of compose_smart, once the discovery is there
SmartSelect(task_description, max_tokens, include_principles, include_workflows, discovered) ==
    SmartDiscovered(task_description, max_tokens, discovered,
                    SelectComponents(discovered.ret, include_principles,
                                     include_workflows))

\* compose_smart(task_description, max_tokens, include_principles,
\* include_workflows) -> dict
compose_smart(st, m, task_description, max_tokens, include_principles, include_workflows) ==
    SmartSelect(task_description, max_tokens, include_principles, include_workflows,
                discover_prompts(st, m, task_description))

-----------------------------------------------------------------------------
(* SpecSmart: prompts are saved, embeddings are stored for them, and       *)
(* search_prompts, discover_prompts and compose_smart are called, each in  *)
(* one step.  A call an exception leaves has the exception as its result.  *)

\* the ids embeddings are stored under: a builtin prompt, a saved prompt and
\* an id the registry does not know
SmartIds == {"ask_plan_act", "base", "ghost"}

\* the contents saved: one that speaks of a principle, one of a workflow
SmartTexts == {"Guiding principle", "Release workflow"}

\* the embeddings manager the operations work on
Manager ==
    [rows |-> prompt_embeddings, auto_indexed |-> auto_indexed, model |-> ManagerModel]

\* what the caller of a call gets: the dict, or the exception
Outcome(out) == IF out.raised # None THEN [raised |-> out.raised[1]] ELSE out.ret

InitSmart ==
    /\ custom_prompts = << >>
    /\ usage_log = 0
    /\ files = InstalledFiles
    /\ call = NoCall
    /\ result = NoResult
    /\ contents = << >>
    /\ separator = DefaultSeparator
    /\ prompt_embeddings = << >>
    /\ auto_indexed = FALSE
    /\ searches = [t \in Threads |-> IdleFrame]
    /\ QueueIdle
    /\ GuardIdle
    /\ LoaderIdle

SearchPrompts(query, top_k, min_similarity) ==
    /\ call = NoCall
    /\ usage_log + Len(prompt_embeddings) <= MaxUsage
    /\ \E out \in {search_prompts(State, Manager, query, top_k, min_similarity)} :
          /\ custom_prompts' = out.st.custom_prompts
          /\ usage_log' = out.st.usage_log
          /\ prompt_embeddings' = out.m.rows
          /\ auto_indexed' = out.m.auto_indexed
          /\ result' = Outcome(out)
    /\ call' = [op |-> "search_prompts", query |-> query, top_k |-> top_k,
                min_similarity |-> min_similarity]
    /\ UNCHANGED <<files, contents, separator, searches, queue_vars, guard_vars,
                   loader_vars>>

DiscoverPrompts(task_description) ==
    /\ call = NoCall
    /\ usage_log + Len(prompt_embeddings) <= MaxUsage
    /\ \E out \in {discover_prompts(State, Manager, task_description)} :
          /\ custom_prompts' = out.st.custom_prompts
          /\ usage_log' = out.st.usage_log
          /\ prompt_embeddings' = out.m.rows
          /\ auto_indexed' = out.m.auto_indexed
          /\ result' = Outcome(out)
    /\ call' = [op |-> "discover_prompts", task_description |-> task_description]
    /\ UNCHANGED <<files, contents, separator, searches, queue_vars, guard_vars,
                   loader_vars>>

ComposeSmart(task_description, max_tokens, include_principles, include_workflows) ==
    /\ call = NoCall
    /\ usage_log + Len(prompt_embeddings) <= MaxUsage
    /\ \E out \in {compose_smart(State, Manager, task_description, max_tokens,
                                 include_principles, include_workflows)} :
          /\ custom_prompts' = out.st.custom_prompts
          /\ usage_log' = out.st.usage_log
          /\ prompt_embeddings' = out.m.rows
          /\ auto_indexed' = out.m.auto_indexed
          /\ result' = Outcome(out)
    /\ call' = [op |-> "compose_smart", task_description |-> task_description,
                max_tokens |-> max_tokens,
                include_principles |-> include_principles,
                include_workflows |-> include_workflows]
    /\ UNCHANGED <<files, contents, separator, searches, queue_vars, guard_vars,
                   loader_vars>>

NextSmart ==
    \/ \E content \in SmartTexts : SavePrompt("base", Some(content), None)
    \/ \E prompt_id \in SmartIds, embedding \in SmartVectors :
            StoreEmbedding(prompt_id,
                           IF prompt_id = "ask_plan_act" THEN "default" ELSE "custom",
                           embedding)
    \/ \E query \in TaskDescriptions : SearchPrompts(query, 5, 300000)
    \/ \E task_description \in TaskDescriptions : DiscoverPrompts(task_description)
    \/ \E task_description \in TaskDescriptions, max_tokens \in {None, Some(100)},
          include \in BOOLEAN :
            ComposeSmart(task_description, max_tokens, include, TRUE)
    \/ Return

SpecSmart == InitSmart /\ [][NextSmart]_vars

-----------------------------------------------------------------------------
(* Discovery and smart composition: properties (SpecSmart).                *)

\* the prompts of the registry the similarity search of discover_prompts
\* returns for the task with a similarity above 0.4
RelevantPrompts(task_description) ==
    LET similar == find_similar(Manager, generate_embedding(ManagerModel, task_description),
                                10, 200000).results
    IN {similar[i].prompt_id : i \in
           {j \in DOMAIN similar :
               /\ FloatLess(Millionths(400000), similar[j].similarity)
               /\ "content" \in DOMAIN get_prompt(State, similar[j].prompt_id).ret}}

\* the names a discovery recommends
Recommended(discovery) ==
    {discovery.recommended_principles[i].name :
        i \in DOMAIN discovery.recommended_principles}
    \cup {discovery.recommended_workflows[i].name :
             i \in DOMAIN discovery.recommended_workflows}

\* C26: when the similarity search returns prompts of the registry with a
\* similarity above 0.4 for the task, discover_prompts recommends each of them
\* as a principle or a workflow, and compose_smart, asked for principles and
\* workflows, returns a composition.
C26_SmartComposesDiscovered ==
    [][/\ (call = NoCall /\ call'.op = "discover_prompts") =>
            LET relevant == RelevantPrompts(call'.task_description)
            IN relevant # {} =>
                  /\ "recommended_principles" \in DOMAIN result'
                  /\ relevant \subseteq Recommended(result')
       /\ (/\ call = NoCall
           /\ call'.op = "compose_smart"
           /\ call'.include_principles
           /\ call'.include_workflows) =>
            (RelevantPrompts(call'.task_description) # {} =>
                  /\ "content" \in DOMAIN result'
                  /\ "smart_metadata" \in DOMAIN result')]_vars

-----------------------------------------------------------------------------
(* SpecKeys: prompts are saved under names of which some differ only in    *)
(* case and in spaces for underscores, and are read back by name.          *)

\* the names saved: three with the same derived key, and one of its own
KeyNames == {"my_prompt", "My Prompt", "MY_PROMPT", "base"}

NextKeys ==
    \/ \E name \in KeyNames,
          content \in {None} \cup {Some(t) : t \in RegistryTexts},
          file_path \in {None, Some("notes.md")} :
            SavePrompt(name, content, file_path)
    \/ \E name \in KeyNames :
            /\ usage_log + 1 <= MaxUsage
            /\ GetPrompt(name)
    \/ Return

SpecKeys == Init /\ [][NextKeys]_vars

-----------------------------------------------------------------------------
(* The primary key of a saved prompt: properties (SpecKeys).               *)

\* a call of save_prompt, with a content or a file_path and not both, under a
\* name that no saved prompt has, while a saved prompt of another name has
\* the same name in lower case with underscores for spaces
IsKeyCollision ==
    /\ call = NoCall
    /\ call'.op = "save_prompt"
    /\ Truthy(call'.content) # Truthy(call'.file_path)
    /\ call'.name \notin DOMAIN custom_prompts
    /\ \E n \in DOMAIN custom_prompts : PromptId(n) = PromptId(call'.name)

\* C29: a prompt is stored under the key that is its name in lower case with
\* underscores for spaces; a save under a name that no saved prompt has, but
\* whose key is that of a saved prompt, returns the 'already exists' error for
\* its own name and leaves the registry as it was, so the name is still not
\* the name of a saved prompt.
C29_DerivedKeyCollision ==
    [][/\ (call = NoCall /\ call'.op = "save_prompt" /\ "saved" \in DOMAIN result')
            => /\ call'.name \in DOMAIN custom_prompts'
               /\ custom_prompts'[call'.name].id = PromptId(call'.name)
       /\ IsKeyCollision =>
            /\ result' = [error |-> "Prompt with name '" \o call'.name
                                       \o "' already exists"]
            /\ custom_prompts' = custom_prompts
            /\ usage_log' = usage_log
            /\ call'.name \notin DOMAIN custom_prompts']_vars

\* 'My Prompt' was refused as already existing after 'my_prompt' was saved,
\* and is the name of no saved prompt
C29_Witness ==
    /\ call.op = "save_prompt"
    /\ call.name = "My Prompt"
    /\ result = [error |-> "Prompt with name 'My Prompt' already exists"]
    /\ DOMAIN custom_prompts = {"my_prompt"}
    /\ custom_prompts["my_prompt"].id = "my_prompt"

=============================================================================
